---- MODULE Spec2Model ----
(***************************************************************************)
(* State-machine model of the mlua-luau-scheduler runtime: the tick loop   *)
(* of Runtime::run, the two thread queues, the futures queue, the result   *)
(* map, the exit slot and the script functions spawn / defer / resume /    *)
(* cancel / exit.                                                          *)
(*                                                                         *)
(* Coroutines are the members of Threads.  What a coroutine's script does  *)
(* during one resumption is a nondeterministic input: while it is running  *)
(* it may call the script functions and the host extension methods, and    *)
(* its step ends in one of the outcomes of StepOutcomes.                   *)
(***************************************************************************)
EXTENDS Integers, Sequences, FiniteSets, TLC

\* The coroutine objects of the VM and the thread-local host futures.
Threads == {"a", "b"}
Futs == {"f"}

\* Bounds of the model.
MaxCalls == 3    \* calls of runtime methods and script functions that have an effect
MaxRuntimes == 2 \* Runtime::new calls in the attachment specification
MaxHandles == 2  \* live values (original and clones) per Runtime
MaxExtSpawns == 1 \* futures scheduled through lua.spawn / lua.spawn_local, lifecycle
MaxVals == 2     \* values a coroutine passes out of one step, value-level specification
MaxSlots == 3    \* ThreadWithArgs values made by push_item, registry specification
Runtimes == 1..MaxRuntimes

None == "none"
\* Option::None of an exit code (codes themselves are u8)
NoCode == -1
ExitCodes == {0, 1}
\* ExitCode::default(), the code of exit() called without an argument
DefaultExitCode == 0
\* Option<u8> argument of the script function exit
ExitArgs == {NoCode, 1}

VARIABLES
    status,        \* Runtime::status: "NotStarted" | "Running" | "Completed"
    loop,          \* position of run's loop: "none" | "wait" | "tick" | "exited"
    exitCode,      \* Exit: None or the code
    exitNotified,  \* the loop's listener on the Exit event was notified
    queue_spawn,   \* SpawnedThreadQueue, a FIFO of coroutines
    queue_defer,   \* DeferredThreadQueue
    fut_queue,     \* FuturesQueue
    runq,          \* runnable tasks of the local executor, in schedule order
    waiter,        \* per coroutine: the task whose waker its host future holds
    orphans,       \* tasks blocked on a host await whose waker was replaced
    futWait,       \* host futures that returned Pending and wait for a wake
    futUsed,       \* host futures already submitted through spawn_local
    stack,         \* what is executing on the VM: frames, innermost last
    vm,            \* per coroutine: its VM state
    tracked,       \* ThreadResultMap.tracked
    results,       \* ThreadResultMap.inner: None | "Ok" | "Err"
    cbCalls,       \* per coroutine: invocations of the error callback for it
    panicked,      \* the process panicked
    pushLog,       \* history: per queue, the coroutines in push-call order since the last drain
    drained,       \* history: per queue, the entries of the last drain in push order, each
                   \* with whether its coroutine was Resumable (live) when drained
    resumed,       \* history: the drained tasks first polled since the last drain
    lastSet,       \* history: the code asked for by the last set_exit_code / exit call
    setInRun,      \* history: set_exit_code was called while run was active
    gotSome,       \* history: ids for which get_thread_result returned Some
    pushed,        \* history: ids returned by Runtime::push_thread_front / back before run ended
    calls,         \* history: number of calls with an effect so far
    fnIn,          \* value level: the coroutine and the step a script function is applied to
    fnOut,         \* value level: per function, what its call returned (None: not called)
    appData,       \* attachment: the Runtime whose metadata is the VM's app data, 0 for none
    handles,       \* attachment: per Runtime, its live values (the original and its clones)
    created,       \* attachment: number of Runtime values Runtime::new has returned
    attachPanicked, \* attachment: an assert! or expect of the methods below failed
    weakRefs,      \* lifecycle: the weak executor / FuturesQueue references in the app data:
                   \* "none", "live" (their run is active) or "stale" (left by an abandoned run)
    rtStatus,      \* lifecycle: per Runtime, its status cell (shared by its clones)
    running,       \* lifecycle: the Runtime whose run future is alive, 0 for none
    errCb,         \* lifecycle: per Runtime, its error callback: "default" | "custom" | "none"
    extSpawned,    \* lifecycle: futures scheduled through lua.spawn / lua.spawn_local
    panicMsg,      \* lifecycle: the message of the panic, None while there was none
    lastCall,      \* history: the method whose call took place in the last step and the
                   \* Runtime it was called on, until the call has returned
    abandoned,     \* history: a run future was dropped before it completed
    lastFn,        \* history: the script function or Lua-state push method called in the last
                   \* step, or the spawn whose immediate resume ended in it, and its coroutine
    listener,      \* waiting: per id, the state of a wait_for_thread future on it
    hSlot,         \* handles: per coroutine, its Handle still holds the thread and arguments
    hResult,       \* handles: per coroutine, the result cell of its Handle: None | "Ok" | "Err"
    hFinal,        \* handles: per coroutine, the completion flag of its Handle
    hTask,         \* handles: per coroutine, where the thread of its Handle is
    slotMade,      \* registry: number of ThreadWithArgs values made so far
    regKeys,       \* registry: the keys of the Lua registry that hold a value
    regRemoved,    \* registry, history: per key, the remove_registry_value calls on it
    slotQ,         \* registry: per queue, its ThreadWithArgs entries, oldest first
    itemWait,      \* wakeups: per queue, the position of the loop's wait_for_item future
    pushing        \* wakeups: per pushing thread, the queue it pushed to and has not notified

\* The state of the program and the histories of what it did.
progVars == <<status, loop, exitCode, exitNotified, queue_spawn, queue_defer, fut_queue,
              runq, waiter, orphans, futWait, futUsed, stack, vm, tracked, results,
              cbCalls, panicked, pushLog, drained, resumed, lastSet, setInRun, gotSome, pushed>>

\* The value level of the script functions and the attachment of Runtimes to
\* the VM, each explored by a specification of its own below.
fnVars == <<fnIn, fnOut>>
lifeVars == <<weakRefs, rtStatus, running, errCb, extSpawned, panicMsg, lastCall, abandoned>>
attachVars == <<appData, handles, created, attachPanicked, lifeVars>>

\* wait_for_thread futures and Handles, each explored by a specification of
\* its own below.
waitVars == <<listener>>
handleVars == <<hSlot, hResult, hFinal, hTask>>
slotVars == <<slotMade, regKeys, regRemoved, slotQ>>
wakeVars == <<itemWait, pushing>>
obsVars == <<waitVars, handleVars, slotVars, wakeVars>>

vars == <<progVars, calls, fnVars, attachVars, lastFn, obsVars>>

loopVars == <<status, loop, exitNotified>>
queueVars == <<queue_spawn, queue_defer, fut_queue>>
execVars == <<runq, waiter, orphans, futWait>>
vmVars == <<stack, vm>>
mapVars == <<tracked, results>>
orderHist == <<pushLog, drained, resumed>>
exitHist == <<lastSet, setInRun>>

NoFn == [fn |-> None, th |-> None]
NoCall == [op |-> None, r |-> 0]
NoTask == [k |-> "none", th |-> None, tr |-> FALSE, cls |-> None, st |-> FALSE]

\* LuaThreadStatus::Resumable: suspended at a yield or not started ("susp"), or
\* suspended inside a host await whose future is pending ("await") or done ("ready").
IsResumable(t) == vm[t] \in {"susp", "await", "ready"}

\* ThreadId::from(&thread): the identity of the coroutine object.
ThreadIdOf(t) == t

\* ThreadResultMap::is_tracked
is_tracked(id) == id \in tracked

\* An emptiness test that does not count the tasks of pending futures.
LocalExecIsEmpty_NoFutures(rq) ==
    /\ rq = <<>>
    /\ \A t \in Threads : waiter[t] = NoTask
    /\ orphans = 0

\* LocalExecutor::is_empty for the runnable queue rq: no task at all is alive.
LocalExecIsEmpty(rq) ==
    /\ rq = <<>>
    /\ \A t \in Threads : waiter[t] = NoTask
    /\ orphans = 0
    /\ futWait = {}

\* The scheduler after Runtime::new, before any push and before run.
SchedInit ==
    /\ status = "NotStarted"
    /\ loop = "none"
    /\ exitCode = NoCode
    /\ exitNotified = FALSE
    /\ queue_spawn = <<>>
    /\ queue_defer = <<>>
    /\ fut_queue = <<>>
    /\ runq = <<>>
    /\ waiter = [t \in Threads |-> NoTask]
    /\ orphans = 0
    /\ futWait = {}
    /\ futUsed = {}
    /\ stack = <<>>
    /\ vm = [t \in Threads |-> "susp"]
    /\ tracked = {}
    /\ results = [t \in Threads |-> None]
    /\ cbCalls = [t \in Threads |-> 0]
    /\ panicked = FALSE
    /\ pushLog = [c \in {"spawn", "defer"} |-> <<>>]
    /\ drained = [c \in {"spawn", "defer"} |-> <<>>]
    /\ resumed = <<>>
    /\ lastSet = NoCode
    /\ setInRun = FALSE
    /\ gotSome = {}
    /\ pushed = {}
    /\ calls = 0
    /\ lastFn = NoFn

\* No script function is looked at on the value level.
FnIdle ==
    /\ fnIn = None
    /\ fnOut = <<>>

\* No wait_for_thread future exists, no Handle was made and no queue entry
\* was made.
ObsIdle ==
    /\ listener = [id \in Threads |-> "none"]
    /\ hSlot = [t \in Threads |-> FALSE]
    /\ hResult = [t \in Threads |-> None]
    /\ hFinal = [t \in Threads |-> FALSE]
    /\ hTask = [t \in Threads |-> "none"]
    /\ slotMade = 0
    /\ regKeys = {}
    /\ regRemoved = [k \in 1..(2 * MaxSlots) |-> 0]
    /\ slotQ = [c \in {"spawn", "defer"} |-> <<>>]
    /\ itemWait = [c \in {"spawn", "defer"} |-> "new"]
    /\ pushing = [p \in {"p1", "p2"} |-> None]

\* Runtime::new was called once on a fresh VM and its value is alive.
\* No run was started, no callback was replaced and nothing panicked.
LifeInit ==
    /\ weakRefs = "none"
    /\ rtStatus = [r \in Runtimes |-> "NotStarted"]
    /\ running = 0
    /\ errCb = [r \in Runtimes |-> "default"]
    /\ extSpawned = 0
    /\ panicMsg = None
    /\ lastCall = NoCall
    /\ abandoned = FALSE

OneRuntimeAttached ==
    /\ appData = 1
    /\ handles = [r \in Runtimes |-> IF r = 1 THEN 1 ELSE 0]
    /\ created = 1
    /\ attachPanicked = FALSE
    /\ LifeInit

Init ==
    /\ SchedInit
    /\ FnIdle
    /\ OneRuntimeAttached
    /\ ObsIdle

\* A call is counted when it has an effect; MaxCalls bounds the counted calls.
Counted ==
    /\ calls < MaxCalls
    /\ calls' = IF progVars' = progVars THEN calls ELSE calls + 1
    /\ UNCHANGED <<fnVars, attachVars, obsVars>>
    /\ lastFn = NoFn
    /\ lastFn' = NoFn

\* The same for a call of the script function or Lua-state method fn on
\* coroutine t, which the history notes until the call has returned.
CountedFn(fn, t) ==
    /\ calls < MaxCalls
    /\ calls' = IF progVars' = progVars THEN calls ELSE calls + 1
    /\ UNCHANGED <<fnVars, attachVars, obsVars>>
    /\ lastFn = NoFn
    /\ lastFn' = [fn |-> fn, th |-> t]

(***************************************************************************)
(* ThreadQueue and FuturesQueue                                            *)
(***************************************************************************)

\* A queue that hands out its newest entry first.
push_item_lifo(q, t) == <<t>> \o q

\* ThreadQueue::push_item: ConcurrentQueue::push appends at the tail.
push_item(q, t) == Append(q, t)

\* FuturesQueue::push_item
push_fut(q, f) == Append(q, f)

\* process_thread: the task made for a drained entry; the tracked flag is sampled here.
ThreadTask(t, c) == [k |-> "thread", th |-> ThreadIdOf(t), tr |-> is_tracked(ThreadIdOf(t)), cls |-> c, st |-> FALSE]

FutTask(f) == [k |-> "fut", th |-> f, tr |-> FALSE, cls |-> "fut", st |-> FALSE]

\* A drain that makes a task for every entry, whatever its coroutine's status.
ProcessThreads_NoStatusCheck(q, c) == [i \in 1..Len(q) |-> ThreadTask(q[i], c)]

\* process_thread over ThreadQueue::drain_items: entries whose coroutine is
\* not Resumable any more are dropped, the others become tasks in queue order.
ProcessThreads(q, c) ==
    LET live == SelectSeq(q, IsResumable)
    IN  [i \in 1..Len(live) |-> ThreadTask(live[i], c)]

\* FuturesQueue::drain_items, each future spawned on the local executor.
ProcessFutures(q) == [i \in 1..Len(q) |-> FutTask(q[i])]

\* A loop body that drains the Defer queue before the Spawn queue.
SpawnedByDrain_DeferFirst ==
    ProcessThreads(queue_defer, "defer") \o ProcessThreads(queue_spawn, "spawn")
        \o ProcessFutures(fut_queue)

\* The tasks one pass of the loop body spawns on the local executor, in spawn
\* order: the Spawn queue, then the Defer queue, then the futures queue.
SpawnedByDrain ==
    ProcessThreads(queue_spawn, "spawn") \o ProcessThreads(queue_defer, "defer")
        \o ProcessFutures(fut_queue)

\* "Check if we should exit": the test made right after the prioritised wait.
ShouldExit == exitCode # NoCode

\* A loop that stops as soon as no task is runnable.
ShouldStop_NoneRunnable(rq) == rq = <<>>

\* "Empty executor": the test that ends the loop after the drains.
ShouldStop(rq) == LocalExecIsEmpty(rq)

(***************************************************************************)
(* Runtime::run                                                            *)
(***************************************************************************)

\* The loop body after the prioritised wait, up to the next wait: the exit
\* check, the three drains, the empty check, and the first poll of the next
\* wait (queues are empty then, so only a runnable task makes it ready).
AfterWake ==
    /\ exitNotified' = FALSE
    /\ IF ShouldExit
       THEN /\ loop' = "exited"
            /\ UNCHANGED <<queueVars, runq, orderHist>>
       ELSE LET rq == runq \o SpawnedByDrain
            IN  /\ queue_spawn' = <<>>
                /\ queue_defer' = <<>>
                /\ fut_queue' = <<>>
                /\ runq' = rq
                /\ pushLog' = [c \in {"spawn", "defer"} |-> <<>>]
                /\ drained' = [c \in {"spawn", "defer"} |->
                                   [i \in 1..Len(pushLog[c]) |->
                                       [th |-> pushLog[c][i], live |-> IsResumable(pushLog[c][i])]]]
                /\ resumed' = <<>>
                /\ loop' = IF ShouldStop(rq) THEN "exited"
                           ELSE IF rq # <<>> THEN "tick" ELSE "wait"

\* Some thread or futures queue holds an item (wait_for_item is ready).
QueueReady == queue_spawn # <<>> \/ queue_defer # <<>> \/ fut_queue # <<>>

\* Runtime::run up to its first wait.
RunStart ==
    /\ ~panicked
    /\ status = "NotStarted"
    /\ status' = "Running"
    /\ IF QueueReady
       THEN AfterWake
       ELSE /\ loop' = "wait"
            /\ UNCHANGED <<exitNotified, queueVars, runq, orderHist>>
    /\ UNCHANGED <<exitCode, waiter, orphans, futWait, futUsed, vmVars, mapVars,
                   cbCalls, panicked, exitHist, gotSome, pushed>>
    /\ UNCHANGED <<calls, fnVars, attachVars, obsVars>>
    /\ lastFn = NoFn
    /\ lastFn' = NoFn

\* The prioritised wait completes: exit event, then the queues, then a tick of
\* the local executor.  With only a runnable task, the tick branch starts a batch.
LoopWake ==
    /\ ~panicked
    /\ loop = "wait"
    /\ \/ /\ exitNotified \/ QueueReady
          /\ AfterWake
       \/ /\ ~exitNotified /\ ~QueueReady /\ runq # <<>>
          /\ loop' = "tick"
          /\ UNCHANGED <<exitNotified, queueVars, runq, orderHist>>
    /\ UNCHANGED <<status, exitCode, waiter, orphans, futWait, futUsed, vmVars, mapVars,
                   cbCalls, panicked, exitHist, gotSome, pushed>>
    /\ UNCHANGED <<calls, fnVars, attachVars, obsVars>>
    /\ lastFn = NoFn
    /\ lastFn' = NoFn

\* fut_tick is done: try_tick found no runnable task; the loop body follows.
BatchEnd ==
    /\ ~panicked
    /\ loop = "tick"
    /\ stack = <<>>
    /\ runq = <<>>
    /\ AfterWake
    /\ UNCHANGED <<status, exitCode, waiter, orphans, futWait, futUsed, vmVars, mapVars,
                   cbCalls, panicked, exitHist, gotSome, pushed>>
    /\ UNCHANGED <<calls, fnVars, attachVars, obsVars>>
    /\ lastFn = NoFn
    /\ lastFn' = NoFn

\* After the loop: status Completed, the executors (and their tasks) dropped.
RunFinish ==
    /\ ~panicked
    /\ loop = "exited"
    /\ status' = "Completed"
    /\ loop' = "none"
    /\ runq' = <<>>
    /\ waiter' = [t \in Threads |-> NoTask]
    /\ orphans' = 0
    /\ futWait' = {}
    /\ UNCHANGED <<exitCode, exitNotified, queueVars, futUsed, vmVars, mapVars,
                   cbCalls, panicked, orderHist, exitHist, gotSome, pushed>>
    /\ UNCHANGED <<calls, fnVars, attachVars, obsVars>>
    /\ lastFn = NoFn
    /\ lastFn' = NoFn

(***************************************************************************)
(* Exit and ThreadResultMap                                                *)
(***************************************************************************)

\* Exit::set: store the code and notify the event; only a listener that is
\* registered (the loop is parked in its wait) hears it.
ExitSet(code) ==
    /\ exitCode' = code
    /\ exitNotified' = (exitNotified \/ loop = "wait")
    /\ setInRun' = (setInRun \/ status = "Running")

\* Runtime::get_exit_code
get_exit_code == exitCode

\* A remove that stops tracking the id whether or not a result was stored.
RemoveResult_AlwaysUntracks(id) ==
    /\ results' = [results EXCEPT ![id] = None]
    /\ tracked' = tracked \ {id}
    /\ gotSome' = IF results[id] = None THEN gotSome ELSE gotSome \cup {id}

\* ThreadResultMap::remove: None when no result is stored, otherwise the
\* result is taken out and the id is not tracked any more.
RemoveResult(id) ==
    IF results[id] = None
    THEN UNCHANGED <<tracked, results, gotSome>>
    ELSE /\ results' = [results EXCEPT ![id] = None]
         /\ tracked' = tracked \ {id}
         /\ gotSome' = gotSome \cup {id}

(***************************************************************************)
(* Runtime methods called by the host: before run, after run, or from a    *)
(* future of the host that runs beside run while the loop is parked.       *)
(***************************************************************************)

HostMayCall == ~panicked /\ (status # "Running" \/ loop = "wait")

\* Runtime::push_thread_front
HostPushFront(t) ==
    /\ HostMayCall
    /\ queue_spawn' = push_item(queue_spawn, t)
    /\ tracked' = tracked \cup {ThreadIdOf(t)}
    /\ pushed' = IF status = "Completed" THEN pushed ELSE pushed \cup {ThreadIdOf(t)}
    /\ pushLog' = [pushLog EXCEPT !["spawn"] = Append(@, t)]
    /\ UNCHANGED <<loopVars, exitCode, queue_defer, fut_queue, execVars, futUsed, vmVars,
                   results, cbCalls, panicked, drained, resumed, exitHist, gotSome>>
    /\ Counted

\* Runtime::push_thread_back
HostPushBack(t) ==
    /\ HostMayCall
    /\ queue_defer' = push_item(queue_defer, t)
    /\ tracked' = tracked \cup {ThreadIdOf(t)}
    /\ pushed' = IF status = "Completed" THEN pushed ELSE pushed \cup {ThreadIdOf(t)}
    /\ pushLog' = [pushLog EXCEPT !["defer"] = Append(@, t)]
    /\ UNCHANGED <<loopVars, exitCode, queue_spawn, fut_queue, execVars, futUsed, vmVars,
                   results, cbCalls, panicked, drained, resumed, exitHist, gotSome>>
    /\ Counted

\* Runtime::set_exit_code
HostSetExitCode(c) ==
    /\ HostMayCall
    /\ ExitSet(c)
    /\ lastSet' = c
    /\ UNCHANGED <<status, loop, queueVars, execVars, futUsed, vmVars, mapVars,
                   cbCalls, panicked, orderHist, gotSome, pushed>>
    /\ Counted

\* Runtime::get_thread_result.  A call that finds no result returns None and changes nothing:
\* it is a stuttering step.
HostGetThreadResult(id) ==
    /\ HostMayCall
    /\ results[id] # None
    /\ RemoveResult(id)
    /\ UNCHANGED <<loopVars, exitCode, queueVars, execVars, futUsed, vmVars,
                   cbCalls, panicked, orderHist, exitHist, pushed>>
    /\ UNCHANGED <<calls, fnVars, attachVars, obsVars>>
    /\ lastFn = NoFn
    /\ lastFn' = NoFn

(***************************************************************************)
(* The local executor: polling tasks                                       *)
(***************************************************************************)

Top == stack[Len(stack)]
Pop(st) == SubSeq(st, 1, Len(st) - 1)

\* A coroutine's script is executing (a script function can be called).
InScript == ~panicked /\ stack # <<>> /\ Top.via # "fut"

\* Code with access to the Lua state is executing: a script through a host
\* function, or a thread-local host future.
InHostFn == ~panicked /\ stack # <<>>

\* Resuming coroutine t on behalf of `via`: it runs, its resumer (if a
\* coroutine) is in the normal state meanwhile.
Enter(t, via, tr, cls) ==
    /\ stack' = Append(stack, [th |-> t, via |-> via, tr |-> tr, cls |-> cls])
    /\ vm' = [x \in Threads |->
                IF x = t THEN "running"
                ELSE IF stack # <<>> /\ Top.via # "fut" /\ x = Top.th THEN "normal"
                ELSE vm[x]]

\* run_until_yield: the async stream of a coroutine that is not Resumable
\* when polled ends at once (stream.next() is None).
RunUntilYieldEnds(t) == ~IsResumable(t)

\* The host future of coroutine t's await is polled by task T: its waker
\* replaces the one held before; the task that owned that one is never woken.
RegisterWaker(t, T) ==
    /\ waiter' = [waiter EXCEPT ![t] = [T EXCEPT !.st = TRUE]]
    /\ orphans' = orphans + (IF waiter[t] # NoTask THEN 1 ELSE 0)

\* local_exec.tick() / try_tick(): the next runnable task is polled.
PollTask ==
    /\ ~panicked
    /\ loop = "tick"
    /\ stack = <<>>
    /\ runq # <<>>
    /\ LET T == Head(runq)
           first == IF T.st THEN <<>> ELSE <<[th |-> T.th, cls |-> T.cls]>>
       IN  /\ runq' = Tail(runq)
           /\ CASE T.k = "fut" ->
                     /\ stack' = <<[th |-> T.th, via |-> "fut", tr |-> FALSE, cls |-> "fut"]>>
                     /\ UNCHANGED <<vm, waiter, orphans, panicked, resumed>>
                [] T.k = "thread" /\ RunUntilYieldEnds(T.th) ->
                     \* util.rs unwraps the item and panics; the callers in
                     \* runtime.rs are written for an Option and skip a None.
                     /\ \/ panicked' = TRUE
                        \/ UNCHANGED panicked
                     /\ UNCHANGED <<vmVars, waiter, orphans, resumed>>
                [] T.k = "thread" /\ ~RunUntilYieldEnds(T.th) /\ vm[T.th] = "await" ->
                     /\ RegisterWaker(T.th, T)
                     /\ resumed' = resumed \o first
                     /\ UNCHANGED <<vmVars, panicked>>
                [] OTHER ->
                     /\ Enter(T.th, "task", T.tr, T.cls)
                     /\ resumed' = resumed \o first
                     /\ UNCHANGED <<waiter, orphans, panicked>>
    /\ UNCHANGED <<loopVars, exitCode, queueVars, futWait, futUsed, mapVars, cbCalls,
                   pushLog, drained, exitHist, gotSome, pushed>>
    /\ UNCHANGED <<calls, fnVars, attachVars, obsVars>>
    /\ lastFn = NoFn
    /\ lastFn' = NoFn

\* What one resumption of a coroutine can end in: the pending sentinel of a
\* host await, a yield of user values, a return, or a raised error.
StepOutcomes == {"pending", "yield", "return", "error"}

VmAfter(o) ==
    CASE o = "pending" -> "await"
      [] o = "yield" -> "susp"
      [] o = "return" -> "dead"
      [] OTHER -> "error"

\* thread.status() != Resumable after a step with outcome o
NotResumableAfter(o) == VmAfter(o) \notin {"susp", "await", "ready"}

\* The result written for a finished step: Ok(values) or Err(error).
ThreadResultOf(o) == IF o = "error" THEN "Err" ELSE "Ok"


\* A spawn that records whatever its immediate resume gave back, user values
\* of a yield included.
StoresResult_AnyOutcome(via, o, tr, t) ==
    CASE via = "task" -> tr /\ NotResumableAfter(o)
      [] via = "spawn" -> o # "pending" /\ is_tracked(ThreadIdOf(t))
      [] OTHER -> (o = "error" \/ NotResumableAfter(o)) /\ is_tracked(ThreadIdOf(t))

\* A resume that records the outcome of its step without asking the map
\* whether the coroutine's id is tracked.
StoresResult_ResumeUntracked(via, o, tr, t) ==
    CASE via = "task" -> tr /\ NotResumableAfter(o)
      [] via = "spawn" -> NotResumableAfter(o) /\ is_tracked(ThreadIdOf(t))
      [] OTHER -> o = "error" \/ NotResumableAfter(o)

\* Whether the step's outcome is written to the result map.  A tick-spawned
\* task uses the tracked flag sampled at drain time (tr); spawn and resume
\* ask the map at that moment.  resume stores an error without looking at
\* the status; every other path stores only if the coroutine is done.
StoresResult(via, o, tr, t) ==
    CASE via = "task" -> tr /\ NotResumableAfter(o)
      [] via = "spawn" -> NotResumableAfter(o) /\ is_tracked(ThreadIdOf(t))
      [] OTHER -> (o = "error" \/ NotResumableAfter(o)) /\ is_tracked(ThreadIdOf(t))

\* A spawn that leaves a coroutine parked in a host await to its waker.
SpawnRequeues_Never(via, o) == FALSE

\* spawn's `if v.get(0).map(is_poll_pending)`: the immediate resume gave the
\* pending sentinel back, so the coroutine goes onto the Spawn queue.
SpawnRequeues(via, o) == via = "spawn" /\ o = "pending"

\* A task that goes on waiting for its coroutine after a yield of user values,
\* until the coroutine is done.
TaskContinues_UntilDone(via, o) == via = "task" /\ o \in {"pending", "yield"}

\* run_until_yield awaits one item of the coroutine's stream: the task is
\* pending only while the step is parked in a host await, and is over with the
\* step's first yield of user values, return or error.
TaskContinues(via, o) == via = "task" /\ o = "pending"

\* A resume that leaves a coroutine parked in a host await to its caller.
ResumeRequeues_Never(via, o) == FALSE

\* resume's `if v.get(0).map(is_poll_pending)`: the step gave the pending
\* sentinel back, so the coroutine goes onto the Defer queue.
ResumeRequeues(via, o) == via = "resume" /\ o = "pending"

\* A runtime that reports every error, those returned by resume included.
CallsErrorCallback_EveryError(via, o) == o = "error"

\* Whether the error callback is called for the step: process_thread and
\* spawn forward an error, resume returns it to its caller.
CallsErrorCallback(via, o) == o = "error" /\ via \in {"task", "spawn"}

\* The end of the innermost coroutine's step with outcome o, and what its
\* resumer (a task, spawn or resume) does with it.
EndStep(o) ==
    LET fr == Top
        t == fr.th
        rest == Pop(stack)
        store == StoresResult(fr.via, o, fr.tr, t)
    IN  /\ stack' = rest
        /\ vm' = [x \in Threads |->
                    IF x = t THEN VmAfter(o)
                    ELSE IF rest # <<>> /\ x = rest[Len(rest)].th THEN "running"
                    ELSE vm[x]]
        /\ IF TaskContinues(fr.via, o)
           THEN RegisterWaker(t, [k |-> "thread", th |-> t, tr |-> fr.tr, cls |-> fr.cls, st |-> TRUE])
           ELSE UNCHANGED <<waiter, orphans>>
        /\ queue_spawn' = IF SpawnRequeues(fr.via, o)
                          THEN push_item(queue_spawn, t) ELSE queue_spawn
        /\ queue_defer' = IF ResumeRequeues(fr.via, o)
                          THEN push_item(queue_defer, t) ELSE queue_defer
        /\ pushLog' = IF o = "pending" /\ fr.via = "spawn"
                      THEN [pushLog EXCEPT !["spawn"] = Append(@, t)]
                      ELSE IF o = "pending" /\ fr.via = "resume"
                      THEN [pushLog EXCEPT !["defer"] = Append(@, t)]
                      ELSE pushLog
        /\ cbCalls' = IF CallsErrorCallback(fr.via, o)
                      THEN [cbCalls EXCEPT ![t] = @ + 1] ELSE cbCalls
        /\ IF store /\ ~is_tracked(ThreadIdOf(t))
           THEN \* ThreadResultMap::insert: the debug_assert fails in a debug
                \* build; a release build stores the result.
                \/ /\ panicked' = TRUE
                   /\ UNCHANGED results
                \/ /\ results' = [results EXCEPT ![ThreadIdOf(t)] = ThreadResultOf(o)]
                   /\ UNCHANGED panicked
           ELSE /\ results' = IF store THEN [results EXCEPT ![ThreadIdOf(t)] = ThreadResultOf(o)]
                              ELSE results
                /\ UNCHANGED panicked

\* The running coroutine's step ends.
StepEnd(o) ==
    /\ InScript
    /\ EndStep(o)
    /\ UNCHANGED <<calls, fnVars, attachVars, obsVars>>
    /\ lastFn = NoFn
    /\ lastFn' = CASE Top.via = "spawn" -> [fn |-> "spawn_return", th |-> Top.th]
                    [] Top.via = "resume" -> [fn |-> "resume_return", th |-> Top.th]
                    [] OTHER -> NoFn
    /\ UNCHANGED <<loopVars, exitCode, fut_queue, runq, futWait, futUsed, tracked,
                   drained, resumed, exitHist, gotSome, pushed>>

\* What a poll of a host future can end in: Ready, Pending until an outside
\* wake, or Pending after waking itself (yield_now).
FutOutcomes == {"done", "pending", "again"}

\* The polled host future returns.
FutEnd(o) ==
    /\ ~panicked
    /\ stack # <<>>
    /\ Top.via = "fut"
    /\ stack' = Pop(stack)
    /\ futWait' = IF o = "pending" THEN futWait \cup {Top.th} ELSE futWait
    /\ runq' = IF o = "again" THEN Append(runq, [FutTask(Top.th) EXCEPT !.st = TRUE]) ELSE runq
    /\ UNCHANGED <<loopVars, exitCode, queueVars, waiter, orphans, futUsed, vm, mapVars,
                   cbCalls, panicked, orderHist, exitHist, gotSome, pushed>>
    /\ UNCHANGED <<calls, fnVars, attachVars, obsVars>>
    /\ lastFn = NoFn
    /\ lastFn' = NoFn

(***************************************************************************)
(* The environment: host futures complete and wake their tasks             *)
(***************************************************************************)

\* The host future that coroutine t awaits completes; the task holding its
\* waker becomes runnable.  The future of a coroutine closed meanwhile can
\* still complete.
FutureComplete(t) ==
    /\ ~panicked
    /\ loop \in {"wait", "tick"}
    /\ vm[t] = "await" \/ (waiter[t] # NoTask /\ vm[t] # "ready")
    /\ vm' = [vm EXCEPT ![t] = IF @ = "await" THEN "ready" ELSE @]
    /\ IF waiter[t] # NoTask
       THEN /\ runq' = Append(runq, waiter[t])
            /\ waiter' = [waiter EXCEPT ![t] = NoTask]
       ELSE UNCHANGED <<runq, waiter>>
    /\ UNCHANGED <<loopVars, exitCode, queueVars, orphans, futWait, futUsed, stack,
                   mapVars, cbCalls, panicked, orderHist, exitHist, gotSome, pushed>>
    /\ UNCHANGED <<calls, fnVars, attachVars, obsVars>>
    /\ lastFn = NoFn
    /\ lastFn' = NoFn

\* A parked host future is woken.
FutWake(f) ==
    /\ ~panicked
    /\ loop \in {"wait", "tick"}
    /\ f \in futWait
    /\ futWait' = futWait \ {f}
    /\ runq' = Append(runq, [FutTask(f) EXCEPT !.st = TRUE])
    /\ UNCHANGED <<loopVars, exitCode, queueVars, waiter, orphans, futUsed, vmVars,
                   mapVars, cbCalls, panicked, orderHist, exitHist, gotSome, pushed>>
    /\ UNCHANGED <<calls, fnVars, attachVars, obsVars>>
    /\ lastFn = NoFn
    /\ lastFn' = NoFn

(***************************************************************************)
(* Functions: the script functions, called by the running coroutine        *)
(***************************************************************************)

\* thread.resume(args) on a coroutine parked in a host await whose future is
\* still pending: the VM steps it and the pending sentinel comes back again.
StillPending(t) == vm[t] = "await"

\* spawn(t): resume once now if Resumable; queue on Spawn if pending.
ScriptSpawn(t) ==
    /\ InScript
    /\ IF ~IsResumable(t)
       THEN UNCHANGED <<vmVars, queue_spawn, pushLog>>
       ELSE IF StillPending(t)
       THEN /\ queue_spawn' = push_item(queue_spawn, t)
            /\ pushLog' = [pushLog EXCEPT !["spawn"] = Append(@, t)]
            /\ UNCHANGED vmVars
       ELSE /\ Enter(t, "spawn", FALSE, None)
            /\ UNCHANGED <<queue_spawn, pushLog>>
    /\ UNCHANGED <<loopVars, exitCode, queue_defer, fut_queue, execVars, futUsed, mapVars,
                   cbCalls, panicked, drained, resumed, exitHist, gotSome, pushed>>
    /\ IF IsResumable(t) /\ ~StillPending(t) THEN Counted ELSE CountedFn("spawn", t)

\* A defer that queues whatever it is given.
DeferQueues_Always(t) == TRUE

\* defer's `if thread.status() == LuaThreadStatus::Resumable`
DeferQueues(t) == IsResumable(t)

\* defer(t): never resumes; queue on Defer if Resumable.
ScriptDefer(t) ==
    /\ InScript
    /\ IF DeferQueues(t)
       THEN /\ queue_defer' = push_item(queue_defer, t)
            /\ pushLog' = [pushLog EXCEPT !["defer"] = Append(@, t)]
       ELSE UNCHANGED <<queue_defer, pushLog>>
    /\ UNCHANGED <<loopVars, exitCode, queue_spawn, fut_queue, execVars, futUsed, vmVars,
                   mapVars, cbCalls, panicked, drained, resumed, exitHist, gotSome, pushed>>
    /\ CountedFn("defer", t)

\* The noted call returns to the code that made it.
FnReturn ==
    /\ lastFn # NoFn
    /\ lastFn' = NoFn
    /\ UNCHANGED <<progVars, calls, fnVars, attachVars, obsVars>>

\* resume(t): thread.resume fails with CoroutineInactive on a coroutine that
\* is not Resumable (finished, or running / normal); the error is stored if
\* the id is tracked and returned as (false, message).
ScriptResume(t) ==
    /\ InScript
    /\ IF ~IsResumable(t)
       THEN /\ results' = IF StoresResult("resume", "error", FALSE, t)
                          THEN [results EXCEPT ![ThreadIdOf(t)] = ThreadResultOf("error")]
                          ELSE results
            /\ UNCHANGED <<vmVars, queue_defer, pushLog>>
       ELSE IF StillPending(t)
       THEN /\ queue_defer' = push_item(queue_defer, t)
            /\ pushLog' = [pushLog EXCEPT !["defer"] = Append(@, t)]
            /\ UNCHANGED <<vmVars, results>>
       ELSE /\ Enter(t, "resume", FALSE, None)
            /\ UNCHANGED <<queue_defer, pushLog, results>>
    /\ UNCHANGED <<loopVars, exitCode, queue_spawn, fut_queue, execVars, futUsed, tracked,
                   cbCalls, panicked, drained, resumed, exitHist, gotSome, pushed>>
    /\ IF IsResumable(t) /\ ~StillPending(t) THEN Counted ELSE CountedFn("resume", t)

\* cancel(t): coroutine.close; closing a suspended coroutine kills it, an
\* inactive one is left as it is (and a running one cannot be closed).
ScriptCancel(t) ==
    /\ InScript
    /\ vm' = [vm EXCEPT ![t] = IF IsResumable(t) THEN "closed" ELSE @]
    /\ UNCHANGED <<loopVars, exitCode, queueVars, execVars, futUsed, stack, mapVars,
                   cbCalls, panicked, orderHist, exitHist, gotSome, pushed>>
    /\ Counted

\* An exit function that passes a missing code on as no code.
ExitArgToCode_NoDefault(arg) == arg

\* exit(code): code.map(ExitCode::from).unwrap_or_default()
ExitArgToCode(arg) == IF arg = NoCode THEN DefaultExitCode ELSE arg

\* exit([code]): the stub sets the exit code, then yields its caller.
ScriptExit(arg) ==
    /\ InScript
    /\ ExitSet(ExitArgToCode(arg))
    /\ lastSet' = (IF arg = NoCode THEN DefaultExitCode ELSE arg)
    /\ EndStep("yield")
    /\ UNCHANGED <<status, loop, fut_queue, runq, futWait, futUsed, tracked,
                   drained, resumed, gotSome, pushed>>
    /\ Counted

(***************************************************************************)
(* LuaRuntimeExt: host functions running inside the runtime                *)
(***************************************************************************)

\* lua.set_exit_code
ExtSetExitCode(c) ==
    /\ InHostFn
    /\ ExitSet(c)
    /\ lastSet' = c
    /\ UNCHANGED <<status, loop, queueVars, execVars, futUsed, vmVars, mapVars,
                   cbCalls, panicked, orderHist, gotSome, pushed>>
    /\ Counted

\* A lua.push_thread_front that also tracks the id, as the Runtime method does.
ExtPushFront_Tracking(t) ==
    /\ InHostFn
    /\ queue_spawn' = push_item(queue_spawn, t)
    /\ tracked' = tracked \cup {ThreadIdOf(t)}
    /\ pushLog' = [pushLog EXCEPT !["spawn"] = Append(@, t)]
    /\ UNCHANGED <<loopVars, exitCode, queue_defer, fut_queue, execVars, futUsed, vmVars,
                   results, cbCalls, panicked, drained, resumed, exitHist, gotSome, pushed>>
    /\ CountedFn("lua.push_thread_front", t)

\* lua.push_thread_front: queue.push_item only
ExtPushFront(t) ==
    /\ InHostFn
    /\ queue_spawn' = push_item(queue_spawn, t)
    /\ pushLog' = [pushLog EXCEPT !["spawn"] = Append(@, t)]
    /\ UNCHANGED <<loopVars, exitCode, queue_defer, fut_queue, execVars, futUsed, vmVars,
                   mapVars, cbCalls, panicked, drained, resumed, exitHist, gotSome, pushed>>
    /\ CountedFn("lua.push_thread_front", t)

\* lua.push_thread_back: queue.push_item only
ExtPushBack(t) ==
    /\ InHostFn
    /\ queue_defer' = push_item(queue_defer, t)
    /\ pushLog' = [pushLog EXCEPT !["defer"] = Append(@, t)]
    /\ UNCHANGED <<loopVars, exitCode, queue_spawn, fut_queue, execVars, futUsed, vmVars,
                   mapVars, cbCalls, panicked, drained, resumed, exitHist, gotSome, pushed>>
    /\ CountedFn("lua.push_thread_back", t)

\* lua.track_thread
ExtTrackThread(id) ==
    /\ InHostFn
    /\ tracked' = tracked \cup {id}
    /\ UNCHANGED <<loopVars, exitCode, queueVars, execVars, futUsed, vmVars, results,
                   cbCalls, panicked, orderHist, exitHist, gotSome, pushed>>
    /\ Counted

\* lua.get_thread_result.  A call that finds no result returns None and changes nothing:
\* it is a stuttering step.
ExtGetThreadResult(id) ==
    /\ InHostFn
    /\ results[id] # None
    /\ RemoveResult(id)
    /\ UNCHANGED <<loopVars, exitCode, queueVars, execVars, futUsed, vmVars,
                   cbCalls, panicked, orderHist, exitHist, pushed>>
    /\ UNCHANGED <<calls, fnVars, attachVars, obsVars>>
    /\ lastFn = NoFn
    /\ lastFn' = NoFn

\* lua.spawn_local: the future goes to the futures queue
ExtSpawnLocal(f) ==
    /\ InHostFn
    /\ f \notin futUsed
    /\ fut_queue' = push_fut(fut_queue, f)
    /\ futUsed' = futUsed \cup {f}
    /\ UNCHANGED <<loopVars, exitCode, queue_spawn, queue_defer, execVars, vmVars, mapVars,
                   cbCalls, panicked, orderHist, exitHist, gotSome, pushed>>
    /\ Counted

(***************************************************************************)
(* Specification                                                           *)
(***************************************************************************)

Next ==
    \/ RunStart
    \/ LoopWake
    \/ PollTask
    \/ BatchEnd
    \/ RunFinish
    \/ \E o \in StepOutcomes : StepEnd(o)
    \/ \E o \in FutOutcomes : FutEnd(o)
    \/ \E t \in Threads : FutureComplete(t)
    \/ \E f \in Futs : FutWake(f)
    \/ \E t \in Threads : HostPushFront(t)
    \/ \E t \in Threads : HostPushBack(t)
    \/ \E c \in ExitCodes : HostSetExitCode(c)
    \/ \E id \in Threads : HostGetThreadResult(id)
    \/ \E t \in Threads : ScriptSpawn(t)
    \/ \E t \in Threads : ScriptDefer(t)
    \/ \E t \in Threads : ScriptResume(t)
    \/ \E t \in Threads : ScriptCancel(t)
    \/ \E a \in ExitArgs : ScriptExit(a)
    \/ \E c \in ExitCodes : ExtSetExitCode(c)
    \/ \E t \in Threads : ExtPushFront(t)
    \/ \E t \in Threads : ExtPushBack(t)
    \/ \E id \in Threads : ExtTrackThread(id)
    \/ \E id \in Threads : ExtGetThreadResult(id)
    \/ \E f \in Futs : ExtSpawnLocal(f)
    \/ FnReturn

Spec == Init /\ [][Next]_vars

\* What the program does by itself once run is polled: the loop, the local
\* executor, and scripts and host futures that return from every step.  The
\* host's calls and the completion of host futures are not forced.
Progress ==
    \/ LoopWake
    \/ PollTask
    \/ BatchEnd
    \/ RunFinish
    \/ \E o \in StepOutcomes : StepEnd(o)
    \/ \E o \in FutOutcomes : FutEnd(o)
    \/ FnReturn

FairSpec == Spec /\ WF_vars(Progress)

(***************************************************************************)
(* Properties                                                              *)
(***************************************************************************)

RECURSIVE IsSubseq(_, _)
\* s is q with some elements left out.
IsSubseq(s, q) ==
    IF s = <<>> THEN TRUE
    ELSE IF q = <<>> THEN FALSE
    ELSE IF Head(s) = Head(q) THEN IsSubseq(Tail(s), Tail(q))
    ELSE IsSubseq(s, Tail(q))

\* The coroutines of queue class c that the last drain found Resumable, in
\* push order.
DrainedLive(c) ==
    LET sel == SelectSeq(drained[c], LAMBDA r : r.live)
    IN  [i \in 1..Len(sel) |-> sel[i].th]

\* The coroutines of queue class c first resumed since the last drain, in
\* the order of their resumption.
ResumedOf(c) ==
    LET sel == SelectSeq(resumed, LAMBDA r : r.cls = c)
    IN  [i \in 1..Len(sel) |-> sel[i].th]

\* C1: of the entries taken by one drain, every entry of the Spawn queue is
\* resumed before any entry of the Defer queue.
C1_SpawnBeforeDefer ==
    \A i, j \in 1..Len(resumed) :
        i < j => ~(resumed[i].cls = "defer" /\ resumed[j].cls = "spawn")

\* A drain took entries of both queues and both were resumed.
C1_Witness ==
    \E i, j \in 1..Len(resumed) :
        i < j /\ resumed[i].cls = "spawn" /\ resumed[j].cls = "defer"

\* C2: within one queue class, the entries of a drain are resumed in the
\* order of the push calls that queued them (an entry whose coroutine was
\* cancelled before its turn is skipped).
C2_FifoWithinClass ==
    \A c \in {"spawn", "defer"} : IsSubseq(ResumedOf(c), DrainedLive(c))

\* Two different coroutines of the same queue were resumed after one drain.
C2_Witness ==
    \E c \in {"spawn", "defer"} :
        /\ Len(ResumedOf(c)) >= 2
        /\ ResumedOf(c)[1] # ResumedOf(c)[2]

\* A task of the local executor starts resuming its coroutine.
TaskResumes == stack = <<>> /\ stack' # <<>> /\ stack'[1].via = "task"

\* C3: once an exit code is set, no task of the local executor resumes a
\* coroutine any more, the tasks spawned before the exit included.
C3_NoResumptionAfterExit == [][exitCode # NoCode => ~TaskResumes]_vars

\* C4: once an exit code is set during run, run ends (every step of a
\* coroutine and every poll of a host future returns).
C4_ExitTerminates == setInRun ~> (status = "Completed" \/ panicked)

\* C5: after run, get_exit_code is the code last passed to set_exit_code or
\* exit (the default code for exit without argument), and None if no code
\* was ever set.
C5_ExitCodeAfterRun == status = "Completed" => get_exit_code = lastSet

\* run ended after the default code was set during it.
C5_Witness ==
    status = "Completed" /\ setInRun /\ lastSet = DefaultExitCode /\ vm # [t \in Threads |-> "susp"]

\* Nothing is queued, no task is alive and nothing executes.
Idle == ~QueueReady /\ LocalExecIsEmpty(runq) /\ stack = <<>>

\* run is active without an exit code and with nothing left to do.
IdleRun == status = "Running" /\ exitCode = NoCode /\ ~panicked /\ Idle

\* C6: without exit, run ends once nothing is left to do, for any number of
\* submitted coroutines, zero included: it does not stay active and idle.
C6_TerminatesWithoutExit == IdleRun ~> ~IdleRun

\* C7: when the loop ends without an exit code, the three queues are empty
\* and the local executor holds no unfinished task.
C7_NoPrematureCompletion ==
    (loop = "exited" /\ exitCode = NoCode) => (~QueueReady /\ LocalExecIsEmpty(runq))

\* The loop ended without an exit code after a coroutine ran to its end.
C7_Witness ==
    loop = "exited" /\ exitCode = NoCode /\ \E t \in Threads : vm[t] \in {"dead", "error"}

\* A get_thread_result call returns Some for id in this step.
GetReturnsSome(id) == results[id] # None /\ results'[id] = None

\* C8: get_thread_result never returns Some for a coroutine that is still
\* Resumable.
C8_NoResultWhileResumable ==
    [][\A t \in Threads : GetReturnsSome(ThreadIdOf(t)) => ~IsResumable(t)]_vars

\* C9: get_thread_result returns Some at most once for one id.
C9_SomeAtMostOnce ==
    [][\A id \in Threads : GetReturnsSome(id) => id \notin gotSome]_vars

\* C10: once run has completed (here: without an exit code), the first
\* get_thread_result for an id returned by push_thread_front /
\* push_thread_back returns Some: a result is there for every such id whose
\* result was not taken yet.
C10_CompletedHasResult ==
    (status = "Completed" /\ exitCode = NoCode)
        => \A id \in pushed \ gotSome : results[id] # None

\* The running coroutine t ends in this step, by a return or a raised error.
Finishes(t) == vm[t] = "running" /\ vm'[t] \in {"dead", "error"}

\* C11: a coroutine that is tracked when it finishes has its final outcome
\* in the result map from then on, whether tracking began before or after
\* its queue entry was drained.
C11_TrackedOutcomeRecorded ==
    [][\A t \in Threads :
          (Finishes(t) /\ is_tracked(ThreadIdOf(t)) /\ ~panicked')
              => results'[ThreadIdOf(t)] # None]_vars

\* The running coroutine t raises an error in this step, and the error is
\* uncaught: t was resumed by a task of the executor or by spawn, not by the
\* script function resume (which returns the error to its caller).
RaisesUncaught(t) ==
    /\ vm[t] = "running"
    /\ vm'[t] = "error"
    /\ stack[Len(stack)].via \in {"task", "spawn"}

\* C12: the error callback is invoked exactly once for every uncaught
\* coroutine error, and in no other step.
C12_CallbackExactlyOnce ==
    [][\A t \in Threads :
          cbCalls'[t] = cbCalls[t] + (IF RaisesUncaught(t) THEN 1 ELSE 0)]_vars

\* One coroutine's error was reported, another one's was returned by resume.
C12_Witness ==
    \E t, u \in Threads :
        /\ vm[t] = "error" /\ cbCalls[t] = 1
        /\ vm[u] = "error" /\ cbCalls[u] = 0

\* The running coroutine t raises an error in this step.
Raises(t) == vm[t] = "running" /\ vm'[t] = "error"

\* C13: a coroutine error is not fatal to the runtime, and the result map
\* entry of an erroring coroutine whose id is tracked is Err.
C13_ErrorNotFatal ==
    [][\A t \in Threads :
          Raises(t) => /\ ~panicked'
                       /\ is_tracked(ThreadIdOf(t)) => results'[ThreadIdOf(t)] = "Err"]_vars

\* The loop body drains the queues in this step.
Drains == QueueReady /\ ~QueueReady'

\* C14: a queue entry whose coroutine was cancelled before the drain is
\* skipped by the drain: no task is made for it, no error callback is called,
\* nothing is written to the result map and nothing panics; and a cancelled
\* coroutine is never resumed afterwards.
C14_CancelledEntrySkipped ==
    [][/\ Drains =>
            /\ \A i \in (Len(runq) + 1)..Len(runq') :
                  runq'[i].k = "thread" => vm[runq'[i].th] # "closed"
            /\ cbCalls' = cbCalls
            /\ results' = results
            /\ panicked' = panicked
       /\ \A t \in Threads : vm[t] = "closed" => vm'[t] = "closed"]_vars

\* The last drain skipped an entry of a cancelled coroutine, and run ended.
C14_Witness ==
    /\ loop = "exited"
    /\ ~panicked
    /\ \E c \in {"spawn", "defer"} : \E i \in 1..Len(drained[c]) :
          /\ ~drained[c][i].live
          /\ vm[drained[c][i].th] = "closed"
          /\ cbCalls[drained[c][i].th] = 0
          /\ results[drained[c][i].th] = None
\* The local executor polls, in this step, the task made for coroutine t.
PollsTaskOf(t) ==
    /\ loop = "tick"
    /\ stack = <<>>
    /\ runq # <<>>
    /\ Head(runq).k = "thread"
    /\ Head(runq).th = t
    /\ runq' = Tail(runq)

\* C15: once a coroutine is cancelled, no step calls the error callback for
\* it or writes a result for its id, and the poll of a task that was made for
\* it before the cancel does not panic.
C15_ResumeAfterCancelNoop ==
    [][\A t \in Threads :
          vm[t] = "closed" =>
              /\ cbCalls'[t] = cbCalls[t]
              /\ results'[ThreadIdOf(t)] \in {results[ThreadIdOf(t)], None}
              /\ PollsTaskOf(t) => ~panicked']_vars
\* Runtime::run returns in this step.
RunReturns == status = "Running" /\ status' = "Completed"

\* C16: when run returns, the thread queues hold no entry (each entry is a
\* ThreadWithArgs, a coroutine reference and an arguments reference in the
\* registry).
C16_QueuesReleasedAtReturn ==
    [][RunReturns => (queue_spawn' = <<>> /\ queue_defer' = <<>>)]_vars
\* Future f was submitted through spawn_local and has not run to completion:
\* it waits in the futures queue, or its task is runnable, running or pending.
Unfinished(f) ==
    \/ \E i \in 1..Len(fut_queue) : fut_queue[i] = f
    \/ \E i \in 1..Len(runq) : runq[i].k = "fut" /\ runq[i].th = f
    \/ \E i \in 1..Len(stack) : stack[i].via = "fut" /\ stack[i].th = f
    \/ f \in futWait

Enqueued(id) ==
    \/ queue_spawn' = Append(queue_spawn, id) /\ queue_defer' = queue_defer
    \/ queue_defer' = Append(queue_defer, id) /\ queue_spawn' = queue_spawn

\* lua.push_thread_front or lua.push_thread_back is called on coroutine id in this step.
LuaPushCalled(id) ==
    lastFn' \in {[fn |-> f, th |-> id] : f \in {"lua.push_thread_front", "lua.push_thread_back"}}

\* C23: every id returned by push_thread_front or push_thread_back, of the
\* Runtime or of the Lua state, is tracked in the result map when the call
\* returns.
C23_EveryPushTracks ==
    [][\A id \in Threads :
          (id \in pushed' \ pushed \/ LuaPushCalled(id)) => is_tracked(id)']_vars

\* C23 for the methods as they are: the Runtime's push methods enqueue the
\* coroutine and track its id; the Lua state's push methods enqueue it and
\* leave the result map as it is.
C23_RuntimePushTracks ==
    [][\A id \in Threads :
          /\ id \in pushed' \ pushed => (Enqueued(id) /\ is_tracked(id)')
          /\ LuaPushCalled(id) => (Enqueued(id) /\ mapVars' = mapVars)]_vars

\* A host function has just pushed, through the Lua state, a coroutine that no
\* Runtime method ever pushed and nobody tracked: it is queued and its id is
\* not tracked, so no result will be stored for it.
C23_Witness ==
    /\ ~panicked
    /\ lastFn.fn \in {"lua.push_thread_front", "lua.push_thread_back"}
    /\ lastFn.th \notin pushed
    /\ ~is_tracked(ThreadIdOf(lastFn.th))
    /\ results[ThreadIdOf(lastFn.th)] = None
    /\ \/ queue_spawn # <<>> /\ queue_spawn[Len(queue_spawn)] = lastFn.th
       \/ queue_defer # <<>> /\ queue_defer[Len(queue_defer)] = lastFn.th

\* The step of coroutine t that spawn started (its immediate resume) ends and
\* leaves t in VM state st; spawn's caller is the frame below.
SpawnResumeEnds(t, st) ==
    /\ stack # <<>>
    /\ Top.via = "spawn"
    /\ Top.th = t
    /\ stack' = Pop(stack)
    /\ vm'[t] = st

\* spawn returned to the script that called it: that script runs on, no
\* error was raised into it and nothing panicked.
SpawnReturnsToCaller ==
    /\ ~panicked'
    /\ Len(stack) >= 2
    /\ vm'[stack[Len(stack) - 1].th] = "running"

\* C28: when the immediate resume that spawn performs gives the pending
\* sentinel back, the coroutine is appended at that moment to the tail of the
\* Spawn queue, behind every entry already there (the entries before it are
\* unchanged), the Defer queue is left alone and spawn returns to its caller.
C28_PendingSpawnQueuedAtTail ==
    [][\A t \in Threads : SpawnResumeEnds(t, "await") =>
          /\ queue_spawn' = Append(queue_spawn, t)
          /\ queue_defer' = queue_defer
          /\ SpawnReturnsToCaller]_vars

\* C28 witness: the immediate resume of a spawn has just ended with the
\* coroutine parked in a host await; the Spawn queue already held an entry
\* and the coroutine sits behind it, once, and not on the Defer queue.
C28_Witness ==
    /\ ~panicked
    /\ stack # <<>>
    /\ lastFn.fn = "spawn_return"
    /\ Len(queue_spawn) >= 2
    /\ LET t == lastFn.th
       IN  /\ vm[t] = "await"
           /\ queue_spawn[Len(queue_spawn)] = t
           /\ \A i \in 1..Len(queue_spawn) - 1 : queue_spawn[i] # t
           /\ \A i \in 1..Len(queue_defer) : queue_defer[i] # t

\* The queues hold what they held.
QueuesUntouched == queue_spawn' = queue_spawn /\ queue_defer' = queue_defer

\* The error callback was invoked n more times for coroutine t, and for no other.
CallbackInvoked(t, n) == cbCalls' = [cbCalls EXCEPT ![t] = @ + n]

\* C29 as stated: when the immediate resume of spawn ends without the pending
\* sentinel (the coroutine returned, raised, or yielded user values) and its
\* id is tracked, the outcome of the step is in the ResultMap afterwards, the
\* error callback was invoked if and only if the step failed, and the
\* coroutine is on neither queue because of it.
C29_SpawnOutcomeRecorded ==
    [][\A t \in Threads : \A st \in {"dead", "error", "susp"} :
          (SpawnResumeEnds(t, st) /\ is_tracked(ThreadIdOf(t))) =>
              /\ results'[ThreadIdOf(t)] = (IF st = "error" THEN "Err" ELSE "Ok")
              /\ CallbackInvoked(t, IF st = "error" THEN 1 ELSE 0)
              /\ QueuesUntouched]_vars

\* C29 amended: a tracked coroutine that returned or raised during the
\* immediate resume of spawn has that outcome in the ResultMap afterwards; one
\* that yielded user values is still Resumable and the ResultMap is left as
\* it was.  In all three cases the error callback was invoked if and only if
\* the step failed and the coroutine is put on neither queue.
C29_SpawnFinalOutcomeRecorded ==
    [][\A t \in Threads : \A st \in {"dead", "error", "susp"} :
          (SpawnResumeEnds(t, st) /\ is_tracked(ThreadIdOf(t))) =>
              /\ IF st = "susp"
                 THEN mapVars' = mapVars
                 ELSE /\ results'[ThreadIdOf(t)] = (IF st = "error" THEN "Err" ELSE "Ok")
                      /\ tracked' = tracked
              /\ CallbackInvoked(t, IF st = "error" THEN 1 ELSE 0)
              /\ QueuesUntouched]_vars

\* C29 witness: the immediate resume of a spawn has just ended with an error
\* of a tracked coroutine: the script that called spawn is running again, Err
\* is recorded, the error was reported once and the coroutine is on neither
\* queue.
C29_Witness ==
    /\ ~panicked
    /\ stack # <<>>
    /\ lastFn.fn = "spawn_return"
    /\ LET t == lastFn.th
       IN  /\ Top.th # t
           /\ vm[t] = "error"
           /\ is_tracked(ThreadIdOf(t))
           /\ results[ThreadIdOf(t)] = "Err"
           /\ cbCalls[t] = 1
           /\ \A i \in 1..Len(queue_spawn) : queue_spawn[i] # t
           /\ \A i \in 1..Len(queue_defer) : queue_defer[i] # t

\* The step is a call of the script function fn on coroutine t.
FnCalled(fn, t) == lastFn' = [fn |-> fn, th |-> t]

\* The call resumed nothing and recorded nothing: no coroutine changed its
\* state, the calling script runs on, no task was made, the ResultMap and the
\* error callback were not touched and nothing panicked.
NothingRanOrRecorded ==
    /\ vmVars' = vmVars
    /\ runq' = runq
    /\ mapVars' = mapVars
    /\ cbCalls' = cbCalls
    /\ ~panicked'

\* C30: defer never resumes the coroutine synchronously: for a Resumable
\* coroutine it only appends it to the Defer queue (so the coroutine runs
\* when a later tick drains that queue); spawn or defer applied to a coroutine
\* that is not Resumable returns it to the caller without an error and leaves
\* both queues, the ResultMap and the error callback untouched.
C30_DeferOnlyQueues ==
    [][\A t \in Threads :
          /\ (FnCalled("defer", t) /\ IsResumable(t)) =>
                /\ queue_defer' = Append(queue_defer, t)
                /\ queue_spawn' = queue_spawn
                /\ NothingRanOrRecorded
          /\ ((FnCalled("defer", t) \/ FnCalled("spawn", t)) /\ ~IsResumable(t)) =>
                /\ QueuesUntouched
                /\ NothingRanOrRecorded]_vars

\* C30 witness: a script has just called defer on a coroutine that was never
\* started: the coroutine is still not started, it is the last entry of the
\* Defer queue and no task exists for it.
C30_Witness ==
    /\ ~panicked
    /\ stack # <<>>
    /\ lastFn.fn = "defer"
    /\ LET t == lastFn.th
       IN  /\ Top.th # t
           /\ vm[t] = "susp"
           /\ queue_defer # <<>>
           /\ queue_defer[Len(queue_defer)] = t
           /\ \A k \in 1..Len(resumed) : resumed[k].th # t
           /\ \A k \in 1..Len(runq) : runq[k].th # t

\* The step of coroutine t that the script function resume started ends and
\* leaves t in VM state st; resume's caller is the frame below.
ResumeStepEnds(t, st) ==
    /\ stack # <<>>
    /\ Top.via = "resume"
    /\ Top.th = t
    /\ stack' = Pop(stack)
    /\ vm'[t] = st

\* resume returned to the script that called it: that script runs on, no
\* error was raised into it, nothing panicked, and the call made no task.
ResumeReturnsToCaller ==
    /\ ~panicked'
    /\ Len(stack) >= 2
    /\ vm'[stack[Len(stack) - 1].th] = "running"
    /\ runq' = runq

\* The drain of this step makes a task of the Defer class for coroutine t.
DrainMakesDeferTask(t) ==
    \E i \in (Len(runq) + 1)..Len(runq') :
        runq'[i] = [k |-> "thread", th |-> t, tr |-> is_tracked(ThreadIdOf(t)),
                    cls |-> "defer", st |-> FALSE]

\* C31: when the step that resume performs gives the pending sentinel back
\* (the coroutine went into a host await in it, or was parked in one already),
\* the coroutine is appended to the Defer queue and not to the Spawn queue,
\* nothing is recorded or reported, resume returns to its caller, which runs
\* on while the coroutine stays parked; and the drain of a later tick makes the
\* task that continues a coroutine that waits, still Resumable, on the Defer
\* queue.
C31_PendingResumeDeferred ==
    [][\A t \in Threads :
          /\ ResumeStepEnds(t, "await") =>
                /\ queue_defer' = Append(queue_defer, t)
                /\ queue_spawn' = queue_spawn
                /\ mapVars' = mapVars
                /\ cbCalls' = cbCalls
                /\ ResumeReturnsToCaller
          /\ (FnCalled("resume", t) /\ StillPending(t)) =>
                /\ queue_defer' = Append(queue_defer, t)
                /\ queue_spawn' = queue_spawn
                /\ NothingRanOrRecorded
          /\ (Drains /\ IsResumable(t) /\ \E i \in 1..Len(queue_defer) : queue_defer[i] = t)
                => DrainMakesDeferTask(t)]_vars

\* C31 witness: the step of a resume has just ended with the coroutine parked
\* in a host await: the script that called resume is running again and the
\* coroutine, not running, is the last entry of the Defer queue and is not on
\* the Spawn queue.
C31_Witness ==
    /\ ~panicked
    /\ stack # <<>>
    /\ lastFn.fn = "resume_return"
    /\ LET t == lastFn.th
       IN  /\ Top.th # t
           /\ vm[Top.th] = "running"
           /\ vm[t] = "await"
           /\ queue_defer # <<>>
           /\ queue_defer[Len(queue_defer)] = t
           /\ results[ThreadIdOf(t)] = None
           /\ \A i \in 1..Len(queue_spawn) : queue_spawn[i] # t

\* What a resume of coroutine t leaves behind apart from t's own state: res
\* is in the ResultMap if t's id is tracked and `stores` holds, otherwise the
\* ResultMap is as it was; the tracked set, the queues and the callback counts
\* are as they were.
ResumeRecorded(t, stores, res) ==
    /\ results' = IF stores /\ is_tracked(ThreadIdOf(t))
                  THEN [results EXCEPT ![ThreadIdOf(t)] = res] ELSE results
    /\ tracked' = tracked
    /\ QueuesUntouched
    /\ cbCalls' = cbCalls

\* C32: when the step performed by resume raises (or the coroutine cannot be
\* resumed at all), Err is in the ResultMap afterwards if and only if the id is
\* tracked, nothing is enqueued, the error callback is not called and the
\* caller runs on; when the step returns or yields user values, Ok is written
\* only if the coroutine is no longer Resumable and its id is tracked, and the
\* caller runs on.
C32_ResumeOutcomeRecorded ==
    [][\A t \in Threads :
          /\ ResumeStepEnds(t, "error") =>
                (ResumeRecorded(t, TRUE, "Err") /\ ResumeReturnsToCaller)
          /\ (FnCalled("resume", t) /\ ~IsResumable(t)) =>
                /\ ResumeRecorded(t, TRUE, "Err")
                /\ vmVars' = vmVars
                /\ runq' = runq
                /\ ~panicked'
          /\ ResumeStepEnds(t, "dead") =>
                (ResumeRecorded(t, TRUE, "Ok") /\ ResumeReturnsToCaller)
          /\ ResumeStepEnds(t, "susp") =>
                (ResumeRecorded(t, FALSE, "Ok") /\ ResumeReturnsToCaller)]_vars

\* C32 witness: the step of a resume has just ended with an error of a tracked
\* coroutine: the script that called resume is running again, Err is
\* recorded, the error callback was never called for the coroutine and the
\* coroutine is on neither queue.
C32_Witness ==
    /\ ~panicked
    /\ stack # <<>>
    /\ lastFn.fn = "resume_return"
    /\ LET t == lastFn.th
       IN  /\ Top.th # t
           /\ vm[Top.th] = "running"
           /\ vm[t] = "error"
           /\ is_tracked(ThreadIdOf(t))
           /\ results[ThreadIdOf(t)] = "Err"
           /\ cbCalls[t] = 0
           /\ \A i \in 1..Len(queue_spawn) : queue_spawn[i] # t
           /\ \A i \in 1..Len(queue_defer) : queue_defer[i] # t

\* The step of coroutine t that a task of the executor performs ends and
\* leaves t in VM state st.
TaskStepEnds(t, st) ==
    /\ stack # <<>>
    /\ Top.via = "task"
    /\ Top.th = t
    /\ stack' = Pop(stack)
    /\ vm'[t] = st

\* A task of the executor exists for coroutine t: runnable, parked on t's host
\* future, or performing t's step.
HasTask(t) ==
    \/ \E i \in 1..Len(runq) : runq[i].k = "thread" /\ runq[i].th = t
    \/ waiter[t] # NoTask
    \/ \E i \in 1..Len(stack) : stack[i].via = "task" /\ stack[i].th = t

\* The number of entries of queue q that hold coroutine t.
EntriesOf(q, t) == Cardinality({i \in 1..Len(q) : q[i] = t})

\* The number of tasks for coroutine t among the tasks added to the runnable
\* queue in this step.
TasksAdded(t) ==
    Cardinality({i \in (Len(runq) + 1)..Len(runq') :
                    runq'[i].k = "thread" /\ runq'[i].th = t /\ ~runq'[i].st})

C33_ResultsOnlyForTracked ==
    \A id \in Threads : results[id] # None => is_tracked(id)

\* The step that ends here is the step of a task that found its id tracked
\* at drain time, and the id is not tracked any more.
StaleTrackedFlag ==
    /\ stack # <<>>
    /\ Top.via = "task"
    /\ Top.tr
    /\ ~is_tracked(ThreadIdOf(Top.th))

\* The tracking assertion of insert holds whenever a task inserts: a task
\* whose sampled flag is stale ends its step without an insert and without a
\* panic.
InsertAssertionHolds ==
    [][(StaleTrackedFlag /\ stack' = Pop(stack))
          => (results' = results /\ ~panicked')]_vars

\* C37: a recorded result is stable: once the outcome of a coroutine that has
\* returned or raised is stored for its id, no step changes or replaces it; it
\* only leaves the map when get_thread_result takes it.  In particular a
\* resume of the finished coroutine does not replace a stored Ok by an error.
C37_RecordedResultStable ==
    [][\A t \in Threads :
          (results[ThreadIdOf(t)] # None /\ vm[t] \in {"dead", "error"})
              => results'[ThreadIdOf(t)] \in {results[ThreadIdOf(t)], None}]_vars

\* C39: when one drain finds two entries of the same Resumable coroutine,
\* both become tasks; and the poll of a task whose coroutine has returned or
\* raised meanwhile (in the step of the other task) resumes nothing, records
\* nothing, calls no error callback and does not panic.
C39_SecondEntryNoop ==
    [][\A t \in Threads :
          /\ (Drains /\ IsResumable(t)) =>
                TasksAdded(t) = EntriesOf(queue_spawn \o queue_defer, t)
          /\ (PollsTaskOf(t) /\ vm[t] \in {"dead", "error"}) =>
                /\ vmVars' = vmVars
                /\ mapVars' = mapVars
                /\ cbCalls' = cbCalls
                /\ ~panicked']_vars

\* Two tasks were made for one coroutine by one drain, the coroutine finished
\* in the step of the first, and the poll of the second went by without a
\* panic, a second result or a call of the error callback.
SecondTaskSkipped ==
    /\ ~panicked
    /\ stack = <<>>
    /\ runq = <<>>
    /\ \E t \in Threads : \E c \in {"spawn", "defer"} :
          /\ Len(drained[c]) >= 2
          /\ drained[c][1] = [th |-> t, live |-> TRUE]
          /\ drained[c][2] = [th |-> t, live |-> TRUE]
          /\ Len(resumed) = 1
          /\ vm[t] = "dead"
          /\ cbCalls[t] = 0
          /\ waiter[t] = NoTask

(***************************************************************************)
(* The script functions resume and wrap on the level of values             *)
(***************************************************************************)

\* Lua values, one of each kind that matters here.
LuaValue(ty, text) == [ty |-> ty, text |-> text]
Nil == LuaValue("nil", "")
True == LuaValue("boolean", "true")
False == LuaValue("boolean", "false")
StrV(text) == LuaValue("string", text)
\* the light userdata an async function yields while its future is pending
PollPending == LuaValue("lightuserdata", "poll_pending")
LuaVals == {Nil, LuaValue("number", "1"), LuaValue("table", "T"), StrV("boom")}

ValSeqs == UNION {[1..n -> LuaVals] : n \in 0..MaxVals}

\* A coroutine (suspended or dead, tracked or not) and what its next step
\* does: it yields or returns vals, raises vals[1], or hits a host await
\* (pending) after which its first yield of user values is vals.
FnInputs ==
    {in \in [co : {"susp", "dead"}, tr : BOOLEAN, o : StepOutcomes, vals : ValSeqs] :
        in.o = "error" => Len(in.vals) = 1}

is_poll_pending(v) == v = PollPending

\* The message of the VM for a coroutine that cannot be resumed.
CannotResumeDead == StrV("cannot resume dead coroutine")

\* thread.resume(args) as called by resume: Err for a coroutine that is not
\* suspended, else the step's outcome (a pending host await yields the
\* sentinel).
ThreadResume(in) ==
    IF in.co # "susp"
    THEN [ok |-> FALSE, vals |-> <<>>, err |-> CannotResumeDead, co |-> in.co]
    ELSE CASE in.o = "error" ->
                [ok |-> FALSE, vals |-> <<>>, err |-> in.vals[1], co |-> VmAfter("error")]
           [] in.o = "pending" ->
                [ok |-> TRUE, vals |-> <<PollPending>>, err |-> Nil, co |-> VmAfter("pending")]
           [] OTHER ->
                [ok |-> TRUE, vals |-> in.vals, err |-> Nil, co |-> VmAfter(in.o)]

\* e.to_string(): the error as a Rust String, which reaches Lua as a string.
\* A string message keeps its text; any other error value is rendered.
ErrToString(e) == StrV(IF e.ty = "string" THEN e.text ELSE e.ty)

\* The script function resume: its return values, the coroutine's state
\* after it, whether it queued the coroutine on the Defer queue and what it
\* stored in the result map.
resume(in) ==
    LET r == ThreadResume(in)
    IN  IF r.ok
        THEN IF Len(r.vals) > 0 /\ is_poll_pending(r.vals[1])
             THEN [ret |-> <<True, Nil>>, co |-> r.co, queued |-> TRUE, stored |-> None]
             ELSE [ret |-> <<True>> \o r.vals, co |-> r.co, queued |-> FALSE,
                   stored |-> IF r.co \notin {"susp", "await", "ready"} /\ in.tr
                              THEN "Ok" ELSE None]
        ELSE [ret |-> <<False, ErrToString(r.err)>>, co |-> r.co, queued |-> FALSE,
              stored |-> IF in.tr THEN "Err" ELSE None]

\* coroutine.resume of the VM: (true, values) or (false, error value).
coroutine_resume(in) ==
    IF in.co # "susp"
    THEN [ret |-> <<False, CannotResumeDead>>, co |-> in.co]
    ELSE CASE in.o = "error" -> [ret |-> <<False, in.vals[1]>>, co |-> VmAfter("error")]
           [] in.o = "pending" -> [ret |-> <<True, PollPending>>, co |-> VmAfter("pending")]
           [] OTHER -> [ret |-> <<True>> \o in.vals, co |-> VmAfter(in.o)]

\* The lengths #r may give for the table r = { ... }: any border of r.
Borders(r) ==
    {n \in 0..Len(r) : /\ (n = 0 \/ r[n] # Nil)
                       /\ (n = Len(r) \/ r[n + 1] = Nil)}

\* One call of the function made by wrap (WRAP_IMPL_LUA), with #r = n:
\* `select(2, unpack(r))` on success, `error(r[2], 2)` on failure.
wrap_call(in, n) ==
    LET out == resume(in)
        r == out.ret
    IN  IF r[1] = True
        THEN [raised |-> FALSE, vals |-> SubSeq(r, 2, n), co |-> out.co]
        ELSE [raised |-> TRUE, vals |-> <<r[2]>>, co |-> out.co]

\* One call of the function made by coroutine.wrap of the VM.
coroutine_wrap_call(in) ==
    LET out == coroutine_resume(in)
    IN  IF out.ret[1] = True
        THEN [raised |-> FALSE, vals |-> Tail(out.ret), co |-> out.co]
        ELSE [raised |-> TRUE, vals |-> <<out.ret[2]>>, co |-> out.co]

FnInit ==
    /\ SchedInit
    /\ OneRuntimeAttached
    /\ ObsIdle
    /\ fnIn \in FnInputs
    /\ fnOut = <<>>

\* Each function is applied once to the input and what it gives is recorded.
FnResume ==
    /\ "resume" \notin DOMAIN fnOut
    /\ fnOut' = ("resume" :> resume(fnIn)) @@ fnOut
    /\ UNCHANGED <<progVars, calls, lastFn, obsVars, fnIn, attachVars>>

FnCoroutineResume ==
    /\ "coroutine_resume" \notin DOMAIN fnOut
    /\ fnOut' = ("coroutine_resume" :> coroutine_resume(fnIn)) @@ fnOut
    /\ UNCHANGED <<progVars, calls, lastFn, obsVars, fnIn, attachVars>>

FnWrapCall ==
    /\ "wrap" \notin DOMAIN fnOut
    /\ \E n \in Borders(resume(fnIn).ret) :
          fnOut' = ("wrap" :> wrap_call(fnIn, n)) @@ fnOut
    /\ UNCHANGED <<progVars, calls, lastFn, obsVars, fnIn, attachVars>>

FnCoroutineWrapCall ==
    /\ "coroutine_wrap" \notin DOMAIN fnOut
    /\ fnOut' = ("coroutine_wrap" :> coroutine_wrap_call(fnIn)) @@ fnOut
    /\ UNCHANGED <<progVars, calls, lastFn, obsVars, fnIn, attachVars>>

FnNext ==
    \/ FnResume
    \/ FnCoroutineResume
    \/ FnWrapCall
    \/ FnCoroutineWrapCall

FnSpec == FnInit /\ [][FnNext]_vars

\* C18: when the step hits no host await, resume returns the same values as
\* coroutine.resume and leaves the coroutine in the same state.
C18_ResumeEquivalent ==
    ({"resume", "coroutine_resume"} \subseteq DOMAIN fnOut /\ fnIn.o # "pending")
        => /\ fnOut["resume"].ret = fnOut["coroutine_resume"].ret
           /\ fnOut["resume"].co = fnOut["coroutine_resume"].co

\* C19: a call of a wrapped function whose coroutine hits a host await
\* returns the values of the coroutine's first yield of user values and never
\* the pending sentinel; without a host await the call gives what a call of
\* the function made by coroutine.wrap gives.
C19_WrapBehaviour ==
    /\ ("wrap" \in DOMAIN fnOut /\ fnIn.co = "susp" /\ fnIn.o = "pending")
           => /\ ~fnOut["wrap"].raised
              /\ fnOut["wrap"].vals = fnIn.vals
              /\ \A i \in 1..Len(fnOut["wrap"].vals) : ~is_poll_pending(fnOut["wrap"].vals[i])
    /\ ({"wrap", "coroutine_wrap"} \subseteq DOMAIN fnOut /\ fnIn.o # "pending")
           => fnOut["wrap"] = fnOut["coroutine_wrap"]

\* On the level of values, a resume whose step hits a host await returns
\* exactly (true, nil), queues the coroutine and stores nothing.
PendingResumeReturnsTrueNil ==
    ("resume" \in DOMAIN fnOut /\ fnIn.co = "susp" /\ fnIn.o = "pending")
        => /\ fnOut["resume"].ret = <<True, Nil>>
           /\ fnOut["resume"].queued
           /\ fnOut["resume"].stored = None

\* On the level of values, a resume whose step raises returns (false, message)
\* with the message a string and stores Err exactly for a tracked id; one
\* whose step yields or returns gives true and then the values themselves,
\* and stores Ok exactly for a tracked id of a coroutine that is done.
ResumeReturnsOutcome ==
    ("resume" \in DOMAIN fnOut /\ fnIn.co = "susp") =>
        LET out == fnOut["resume"]
        IN  /\ fnIn.o = "error" =>
                  /\ Len(out.ret) = 2
                  /\ out.ret[1] = False
                  /\ out.ret[2] = ErrToString(fnIn.vals[1])
                  /\ out.stored = (IF fnIn.tr THEN "Err" ELSE None)
                  /\ ~out.queued
            /\ fnIn.o \in {"yield", "return"} =>
                  /\ out.ret = <<True>> \o fnIn.vals
                  /\ out.stored = (IF fnIn.tr /\ fnIn.o = "return" THEN "Ok" ELSE None)
                  /\ ~out.queued

(***************************************************************************)
(* Runtime::new, Clone and Drop: attachment to the VM                      *)
(***************************************************************************)

ERR_METADATA_ALREADY_ATTACHED == "Lua state already has runtime metadata attached!"
ERR_METADATA_REMOVED == "Lua state runtime metadata was unexpectedly removed!"
ERR_SET_CALLBACK_WHEN_RUNNING == "Cannot set error callback when runtime is running!"
ERR_SPAWN_OUTSIDE == "futures can only be spawned within a runtime"
ERR_EXECUTOR_DROPPED == "executor was dropped"

\* A fresh VM: no Runtime was made for it.
AttachInit ==
    /\ SchedInit
    /\ FnIdle
    /\ ObsIdle
    /\ appData = 0
    /\ handles = [r \in Runtimes |-> 0]
    /\ created = 0
    /\ attachPanicked = FALSE
    /\ LifeInit

\* panic!(msg) in method op called on Runtime r (0: called on the Lua state).
Panics(op, r, msg) ==
    /\ lastCall = NoCall
    /\ attachPanicked' = TRUE
    /\ panicMsg' = msg
    /\ lastCall' = [op |-> op, r |-> r]

\* Method op on r runs without a panic.
Returns(op, r) ==
    /\ lastCall = NoCall
    /\ lastCall' = [op |-> op, r |-> r]
    /\ UNCHANGED <<attachPanicked, panicMsg>>

\* Runtime::new: the five assert!s fail when the VM has the metadata;
\* otherwise the new Runtime's metadata becomes the app data.
RuntimeNew ==
    /\ ~attachPanicked
    /\ created < MaxRuntimes
    /\ IF appData # 0
       THEN /\ Panics("new", 0, ERR_METADATA_ALREADY_ATTACHED)
            /\ UNCHANGED <<appData, handles, created>>
       ELSE /\ created' = created + 1
            /\ appData' = created + 1
            /\ handles' = [handles EXCEPT ![created + 1] = 1]
            /\ Returns("new", created + 1)
    /\ UNCHANGED <<progVars, calls, lastFn, obsVars, fnVars>>
    /\ UNCHANGED <<weakRefs, rtStatus, running, errCb, extSpawned, abandoned>>

\* #[derive(Clone)]: one more value of the same Runtime.
RuntimeClone(r) ==
    /\ ~attachPanicked
    /\ handles[r] > 0
    /\ handles[r] < MaxHandles
    /\ handles' = [handles EXCEPT ![r] = @ + 1]
    /\ Returns("clone", r)
    /\ UNCHANGED <<progVars, calls, lastFn, obsVars, fnVars, appData, created>>
    /\ UNCHANGED <<weakRefs, rtStatus, running, errCb, extSpawned, abandoned>>

\* Drop for Runtime: every value dropped removes the VM's metadata, whichever
\* Runtime stored it, and the expect fails when there is none.  The value a
\* live run future borrows cannot be dropped.
RuntimeDrop(r) ==
    /\ ~attachPanicked
    /\ handles[r] > (IF running = r THEN 1 ELSE 0)
    /\ handles' = [handles EXCEPT ![r] = @ - 1]
    /\ IF appData = 0
       THEN Panics("drop", r, ERR_METADATA_REMOVED) /\ UNCHANGED appData
       ELSE appData' = 0 /\ Returns("drop", r)
    /\ UNCHANGED <<progVars, calls, lastFn, obsVars, fnVars, created>>
    /\ UNCHANGED <<weakRefs, rtStatus, running, errCb, extSpawned, abandoned>>

\* A lookup that only finds weak references whose executor is alive.
WeakRefsPublished_OnlyLive == weakRefs = "live"

\* lua.app_data_ref::<WeakArc<Executor>>().is_some() (and the FuturesQueue's)
WeakRefsPublished == weakRefs # "none"

\* Runtime::run up to its first await: the two assert!s, then the weak
\* references are published and the status becomes Running.
RunBegin(r) ==
    /\ ~attachPanicked
    /\ handles[r] > 0
    /\ IF WeakRefsPublished
       THEN /\ Panics("run", r, ERR_METADATA_ALREADY_ATTACHED)
            /\ UNCHANGED <<weakRefs, rtStatus, running>>
       ELSE /\ weakRefs' = "live"
            /\ rtStatus' = [rtStatus EXCEPT ![r] = "Running"]
            /\ running' = r
            /\ Returns("run", r)
    /\ UNCHANGED <<progVars, calls, lastFn, obsVars, fnVars, appData, handles, created>>
    /\ UNCHANGED <<errCb, extSpawned, abandoned>>

\* Runtime::run, clean up: remove_app_data of both weak references.
WeakRefsAfterRun == "none"

\* Runtime::run after its loop: status Completed, the weak references removed.
RunEnd ==
    /\ ~attachPanicked
    /\ running # 0
    /\ rtStatus' = [rtStatus EXCEPT ![running] = "Completed"]
    /\ weakRefs' = WeakRefsAfterRun
    /\ running' = 0
    /\ Returns("run_end", running)
    /\ UNCHANGED <<progVars, calls, lastFn, obsVars, fnVars, appData, handles, created>>
    /\ UNCHANGED <<errCb, extSpawned, abandoned>>

\* The future of run is dropped at one of its awaits: the executors and the
\* FuturesQueue die with it, nothing after the loop is executed.
RunAbandon ==
    /\ ~attachPanicked
    /\ running # 0
    /\ weakRefs' = "stale"
    /\ running' = 0
    /\ abandoned' = TRUE
    /\ Returns("abandon", running)
    /\ UNCHANGED <<progVars, calls, lastFn, obsVars, fnVars, appData, handles, created>>
    /\ UNCHANGED <<rtStatus, errCb, extSpawned>>

\* Status::is_running
is_running(st) == st = "Running"

\* A guard that lets the callback change only before the first run.
MayChangeCallback_OnlyBeforeRun(r) == rtStatus[r] = "NotStarted"

\* assert!(!self.status().is_running(), ..)
MayChangeCallback(r) == ~is_running(rtStatus[r])

\* Runtime::set_error_callback
SetErrorCallback(r) ==
    /\ ~attachPanicked
    /\ handles[r] > 0
    /\ IF MayChangeCallback(r)
       THEN errCb' = [errCb EXCEPT ![r] = "custom"] /\ Returns("set_error_callback", r)
       ELSE Panics("set_error_callback", r, ERR_SET_CALLBACK_WHEN_RUNNING) /\ UNCHANGED errCb
    /\ UNCHANGED <<progVars, calls, lastFn, obsVars, fnVars, appData, handles, created>>
    /\ UNCHANGED <<weakRefs, rtStatus, running, extSpawned, abandoned>>

\* Runtime::remove_error_callback
RemoveErrorCallback(r) ==
    /\ ~attachPanicked
    /\ handles[r] > 0
    /\ IF MayChangeCallback(r)
       THEN errCb' = [errCb EXCEPT ![r] = "none"] /\ Returns("remove_error_callback", r)
       ELSE Panics("remove_error_callback", r, ERR_SET_CALLBACK_WHEN_RUNNING) /\ UNCHANGED errCb
    /\ UNCHANGED <<progVars, calls, lastFn, obsVars, fnVars, appData, handles, created>>
    /\ UNCHANGED <<weakRefs, rtStatus, running, extSpawned, abandoned>>

\* An upgrade that succeeds for every weak reference that is present.
Upgrades_WhenPresent == weakRefs # "none"

\* Weak::upgrade: the executor / FuturesQueue of the reference is alive.
Upgrades == weakRefs = "live"

\* lua.spawn / lua.spawn_local (op): the weak reference is looked up and
\* upgraded, each step with an expect, then the future is scheduled.
LuaSpawnExt(op) ==
    /\ ~attachPanicked
    /\ extSpawned < MaxExtSpawns
    /\ IF ~WeakRefsPublished
       THEN Panics(op, 0, ERR_SPAWN_OUTSIDE) /\ UNCHANGED extSpawned
       ELSE IF ~Upgrades
       THEN Panics(op, 0, ERR_EXECUTOR_DROPPED) /\ UNCHANGED extSpawned
       ELSE extSpawned' = extSpawned + 1 /\ Returns(op, 0)
    /\ UNCHANGED <<progVars, calls, lastFn, obsVars, fnVars, appData, handles, created>>
    /\ UNCHANGED <<weakRefs, rtStatus, running, errCb, abandoned>>

\* The noted method call returns to the host code that made it.
CallReturns ==
    /\ ~attachPanicked
    /\ lastCall # NoCall
    /\ lastCall' = NoCall
    /\ UNCHANGED <<progVars, calls, lastFn, obsVars, fnVars, appData, handles, created,
                   attachPanicked>>
    /\ UNCHANGED <<weakRefs, rtStatus, running, errCb, extSpawned, panicMsg, abandoned>>

AttachNext ==
    \/ RuntimeNew
    \/ \E r \in Runtimes : RuntimeClone(r)
    \/ \E r \in Runtimes : RuntimeDrop(r)
    \/ \E r \in Runtimes : RunBegin(r)
    \/ RunEnd
    \/ RunAbandon
    \/ \E r \in Runtimes : SetErrorCallback(r)
    \/ \E r \in Runtimes : RemoveErrorCallback(r)
    \/ \E op \in {"spawn", "spawn_local"} : LuaSpawnExt(op)
    \/ CallReturns

AttachSpec == AttachInit /\ [][AttachNext]_vars

\* C20: at most one Runtime of the VM has a live value at any time.
C20_OneRuntimePerVm ==
    Cardinality({r \in Runtimes : handles[r] > 0}) <= 1
\* Method op is called in this step.
Called(op) == lastCall'.op = op /\ attachVars' # attachVars

\* C21: run called while weak references are in the app data (a run is
\* active, or one was abandoned) panics with ERR_METADATA_ALREADY_ATTACHED
\* and changes neither the app data nor any status.
C21_SecondRunRejected ==
    [][(Called("run") /\ weakRefs # "none")
          => /\ attachPanicked'
             /\ panicMsg' = ERR_METADATA_ALREADY_ATTACHED
             /\ UNCHANGED <<weakRefs, rtStatus, running, appData>>]_vars

\* run was called after an abandoned run and panicked.
C21_Witness ==
    /\ lastCall.op = "run"
    /\ attachPanicked
    /\ weakRefs = "stale"
    /\ abandoned

\* C22: set_error_callback and remove_error_callback panic exactly when the
\* status of their Runtime is Running, and then leave the callback as it was.
C22_CallbackSettersGuarded ==
    [][\A op \in {"set_error_callback", "remove_error_callback"} :
          Called(op) =>
              /\ attachPanicked' <=> rtStatus[lastCall'.r] = "Running"
              /\ attachPanicked' => errCb' = errCb
              /\ ~attachPanicked' =>
                    errCb'[lastCall'.r] = (IF op = "set_error_callback" THEN "custom" ELSE "none")]_vars

\* The callback of a Runtime was removed after its run had completed.
C22_Witness ==
    /\ lastCall.op = "remove_error_callback"
    /\ ~attachPanicked
    /\ rtStatus[lastCall.r] = "Completed"
    /\ errCb[lastCall.r] = "none"

\* C25: lua.spawn and lua.spawn_local schedule the future only while a run is
\* active; called at any other time they panic and schedule nothing.
C25_SpawnOnlyInsideRun ==
    [][\A op \in {"spawn", "spawn_local"} :
          Called(op) =>
              IF running # 0
              THEN ~attachPanicked' /\ extSpawned' = extSpawned + 1
              ELSE /\ attachPanicked'
                   /\ panicMsg' \in {ERR_SPAWN_OUTSIDE, ERR_EXECUTOR_DROPPED}
                   /\ extSpawned' = extSpawned]_vars

\* spawn_local was called after the Runtime of an abandoned run was dropped,
\* and panicked on the upgrade.
C25_Witness ==
    /\ lastCall.op = "spawn_local"
    /\ panicMsg = ERR_EXECUTOR_DROPPED
    /\ extSpawned = 0
    /\ \A r \in Runtimes : handles[r] = 0

\* Every value of every Runtime made so far has been dropped.
AllDropped == created > 0 /\ \A r \in Runtimes : handles[r] = 0

\* C26: once the Runtime is dropped, the VM carries no metadata of it and no
\* weak reference, whether or not a run was abandoned.
C26_NoSideDataAfterDrop ==
    (AllDropped /\ ~attachPanicked) => (appData = 0 /\ weakRefs = "none")

\* The same for Runtimes whose runs were all driven to completion.
NoSideDataAfterCompletedRuns ==
    (AllDropped /\ ~attachPanicked /\ ~abandoned) => (appData = 0 /\ weakRefs = "none")

(***************************************************************************)
(* Waiting for a thread: ThreadResultMap with its per-id event, and the    *)
(* wait_for_thread futures of the host                                     *)
(***************************************************************************)

\* What the specification of waiting leaves alone.
waitFrame == <<loopVars, exitCode, queueVars, execVars, futUsed, vmVars, cbCalls,
               panicked, orderHist, exitHist, pushed, calls, fnVars,
               attachVars, handleVars, slotVars, wakeVars>>

\* No call of get_thread_result is under way, and none begins.
NoCallUnderWay == lastFn = NoFn /\ UNCHANGED lastFn

WaitInit ==
    /\ SchedInit
    /\ FnIdle
    /\ OneRuntimeAttached
    /\ ObsIdle

\* The event of id is notified: a future listening on it becomes ready to be
\* polled again.
Notified(ls, id) == [ls EXCEPT ![id] = IF @ = "listening" THEN "notified" ELSE @]

\* ThreadResultMap::listen at its first poll: done at once if the map holds a
\* result for id, otherwise it listens on the event of id.
Listen(id) == IF results[id] # None THEN "resolved" ELSE "listening"

\* lua.track_thread / the tracking of Runtime::push_thread_*
WaitTrackThread(id) ==
    /\ ~is_tracked(id)
    /\ tracked' = tracked \cup {id}
    /\ UNCHANGED <<results, gotSome, listener, waitFrame>>
    /\ NoCallUnderWay

\* The tracked coroutine id finished with result res: ThreadResultMap::insert
\* stores it and notifies the event of id.
WaitThreadCompletes(id, res) ==
    /\ is_tracked(id)
    /\ results[id] = None
    /\ results' = [results EXCEPT ![id] = res]
    /\ listener' = Notified(listener, id)
    /\ UNCHANGED <<tracked, gotSome, waitFrame>>
    /\ NoCallUnderWay

\* get_thread_result(id): ThreadResultMap::remove.  A call that finds a
\* result takes it out of the map and stops tracking id; a call that finds
\* none returns None.
WaitGetThreadResult(id) ==
    /\ lastFn = NoFn
    /\ RemoveResult(id)
    /\ lastFn' = [fn |-> "get_thread_result", th |-> id]
    /\ UNCHANGED <<listener, waitFrame>>

\* wait_for_thread(id) is called on a tracked id and polled for the first time.
WaitForThread(id) ==
    /\ is_tracked(id)
    /\ listener[id] = "none"
    /\ listener' = [listener EXCEPT ![id] = Listen(id)]
    /\ UNCHANGED <<mapVars, gotSome, waitFrame>>
    /\ NoCallUnderWay

\* The executor polls the future that was woken by the notification: the
\* listener is done and wait_for_thread resolves.
WaitPoll(id) ==
    /\ listener[id] = "notified"
    /\ listener' = [listener EXCEPT ![id] = "resolved"]
    /\ UNCHANGED <<mapVars, gotSome, waitFrame>>
    /\ NoCallUnderWay

\* The resolved future is dropped by its owner.
WaitDropFuture(id) ==
    /\ listener[id] = "resolved"
    /\ listener' = [listener EXCEPT ![id] = "none"]
    /\ UNCHANGED <<mapVars, gotSome, waitFrame>>
    /\ NoCallUnderWay

WaitNext ==
    \/ \E id \in Threads : WaitTrackThread(id)
    \/ \E id \in Threads : \E res \in {"Ok", "Err"} : WaitThreadCompletes(id, res)
    \/ \E id \in Threads : WaitGetThreadResult(id)
    \/ \E id \in Threads : WaitForThread(id)
    \/ \E id \in Threads : WaitPoll(id)
    \/ \E id \in Threads : WaitDropFuture(id)
    \/ FnReturn

WaitSpec == WaitInit /\ [][WaitNext]_vars

\* The executor eventually polls a future that was woken, however often
\* get_thread_result is called in between, and every call returns.
WaitFairSpec == WaitSpec /\ WF_vars(FnReturn) /\ \A id \in Threads : SF_vars(WaitPoll(id))

\* wait_for_thread(id) resolves in this step.
Resolves(id) == listener[id] # "resolved" /\ listener'[id] = "resolved"

\* C24: wait_for_thread(id) resolves only at a moment at which
\* get_thread_result(id) would return Some (a result for id is in the map),
\* and it resolves at its first poll when the result is already recorded.
C24_ResolvesIffResultPresent ==
    [][\A id \in Threads :
          /\ Resolves(id) => results[id] # None
          /\ (listener[id] = "none" /\ listener'[id] # "none" /\ results[id] # None)
                => Resolves(id)]_vars

\* C40: a get_thread_result(id) that returns None (no result is stored for
\* id, tracked or not) changes nothing: the tracked set, the stored results and
\* the waiting futures are as they were, so a tracked id stays tracked and its
\* outcome can still be recorded; a call that returns Some takes the result
\* and the tracking of that id only.
C40_NoneChangesNothing ==
    [][\A id \in Threads : FnCalled("get_thread_result", id) =>
          IF results[id] = None
          THEN mapVars' = mapVars /\ gotSome' = gotSome /\ listener' = listener
          ELSE /\ results' = [results EXCEPT ![id] = None]
               /\ tracked' = tracked \ {id}]_vars

\* C40 witness: a tracked id with a waiting future was polled before its
\* coroutine finished; get_thread_result has just returned None, the id is
\* still tracked and nothing was ever taken for it.
C40_Witness ==
    \E id \in Threads :
        /\ lastFn = [fn |-> "get_thread_result", th |-> id]
        /\ is_tracked(id)
        /\ results[id] = None
        /\ listener[id] = "listening"
        /\ id \notin gotSome

\* wait_for_thread never resolves before a result was recorded for the id:
\* it resolves at once on a recorded result or after the notification that
\* insert sends.
ResolvesOnlyAfterInsert ==
    [][\A id \in Threads :
          Resolves(id) => (results[id] # None \/ listener[id] = "notified")]_vars

\* A result is recorded for id while a future waits for it.
RecordedWhileWaiting(id) == listener[id] = "notified"

\* Once a result is recorded for the id a future waits on, the future resolves.
EventuallyResolves ==
    \A id \in Threads : RecordedWhileWaiting(id) ~> (listener[id] = "resolved")

\* A future that was notified of a result which was taken out of the map
\* before the future was polled.
ResultTakenBeforeResolution ==
    \E id \in Threads : listener[id] = "notified" /\ results[id] = None

(***************************************************************************)
(* Handles: a coroutine submitted through ThreadQueue::push_item_with_handle *)
(* is wrapped in a thread of its own, whose body is `return handle:resume()`, *)
(* and that thread is what the queue holds and the tick loop resumes.      *)
(***************************************************************************)

\* What the specification of handles leaves alone.
handleFrame == <<loop, exitNotified, queueVars, execVars, futUsed, stack, mapVars,
                 orderHist, exitHist, gotSome, pushed, calls, fnVars,
                 attachVars, lastFn, slotVars, wakeVars>>

HandleInit ==
    /\ SchedInit
    /\ FnIdle
    /\ OneRuntimeAttached
    /\ ObsIdle

\* Coroutine t was submitted and a Handle returned for it.
HasHandle(t) == hTask[t] # "none"

\* Handle::result: the result cell, None while nothing was stored.
HandleResult(t) == hResult[t]

\* No task of a handle thread is ready to be polled: the batch of the tick is over.
BatchOver == \A t \in Threads : hTask[t] # "runnable"

\* A submission made before run: Handle::new keeps the coroutine and its
\* arguments, create_thread makes the handle thread, push_item queues it.
HandleSubmit(t) ==
    /\ status = "NotStarted"
    /\ hTask[t] = "none"
    /\ hSlot' = [hSlot EXCEPT ![t] = TRUE]
    /\ hResult' = [hResult EXCEPT ![t] = None]
    /\ hFinal' = [hFinal EXCEPT ![t] = FALSE]
    /\ hTask' = [hTask EXCEPT ![t] = "queued"]
    /\ UNCHANGED <<status, exitCode, vm, cbCalls, panicked, listener, handleFrame>>

\* Runtime::set_exit_code, or the script function exit called by a coroutine
\* during its step.
HandleSetExitCode(c) ==
    /\ status # "Completed"
    /\ exitCode # c
    /\ exitCode' = c
    /\ UNCHANGED <<status, vm, cbCalls, panicked, handleVars, listener, handleFrame>>

\* Runtime::run is called.
HandleRunStart ==
    /\ status = "NotStarted"
    /\ status' = "Running"
    /\ UNCHANGED <<exitCode, vm, cbCalls, panicked, handleVars, listener, handleFrame>>

\* The loop, woken with no exit code set, drains the queue: every handle
\* thread is fresh, hence Resumable, and gets a task.
HandleDrain ==
    /\ status = "Running"
    /\ ~panicked
    /\ BatchOver
    /\ exitCode = NoCode
    /\ \E t \in Threads : hTask[t] = "queued"
    /\ hTask' = [t \in Threads |-> IF hTask[t] = "queued" THEN "runnable" ELSE hTask[t]]
    /\ UNCHANGED <<status, exitCode, vm, cbCalls, panicked, hSlot, hResult, hFinal, listener,
                   handleFrame>>

\* A set that notifies the event on every assignment.
SetNotifies_Always(is_final) == TRUE

\* Handle::set: `if is_final { self.event.notify(usize::MAX); }`
SetNotifies(is_final) == is_final

\* Handle::set and the return of `result` to the handle thread, for a step of
\* the wrapped coroutine that ended with outcome o: the result cell and the
\* flag are written and, for a final result, the event is notified; an error
\* is raised out of the handle thread, whose task hands it to the error
\* callback.
HandleStepEnds(t, o) ==
    /\ vm' = [vm EXCEPT ![t] = VmAfter(o)]
    /\ hResult' = [hResult EXCEPT ![t] = ThreadResultOf(o)]
    /\ hFinal' = [hFinal EXCEPT ![t] = NotResumableAfter(o)]
    /\ listener' = IF SetNotifies(NotResumableAfter(o)) THEN Notified(listener, t) ELSE listener
    /\ hTask' = [hTask EXCEPT ![t] = "done"]
    /\ cbCalls' = IF o = "error" THEN [cbCalls EXCEPT ![t] = @ + 1] ELSE cbCalls

\* The task of a handle thread is polled: handle:resume takes the coroutine
\* out of the handle and runs it until it yields.  A coroutine that parks in
\* a host await leaves the task pending inside run_until_yield.
HandlePoll(t, o) ==
    /\ status = "Running"
    /\ ~panicked
    /\ hTask[t] = "runnable"
    /\ hSlot[t]
    /\ hSlot' = [hSlot EXCEPT ![t] = FALSE]
    /\ IF o = "pending"
       THEN /\ vm' = [vm EXCEPT ![t] = "await"]
            /\ hTask' = [hTask EXCEPT ![t] = "awaiting"]
            /\ UNCHANGED <<hResult, hFinal, cbCalls, listener>>
       ELSE HandleStepEnds(t, o)
    /\ UNCHANGED <<status, exitCode, panicked, handleFrame>>

\* The host future a wrapped coroutine waits for completes and the
\* coroutine's step runs to its end.
HandleWake(t, o) ==
    /\ status = "Running"
    /\ ~panicked
    /\ hTask[t] = "awaiting"
    /\ o # "pending"
    /\ HandleStepEnds(t, o)
    /\ UNCHANGED <<status, exitCode, panicked, hSlot, handleFrame>>

\* run returns: after a wake it finds the exit code set, or after the drain
\* the executor holds no task.
HandleRunReturns ==
    /\ status = "Running"
    /\ ~panicked
    /\ BatchOver
    /\ \/ exitCode # NoCode
       \/ \A t \in Threads : hTask[t] \in {"none", "done"}
    /\ status' = "Completed"
    /\ UNCHANGED <<exitCode, vm, cbCalls, panicked, handleVars, listener, handleFrame>>

\* Handle::listen is called and polled for the first time: done at once if
\* the flag is set, otherwise it listens on the event of the Handle.
HandleListen(t) ==
    /\ HasHandle(t)
    /\ listener[t] = "none"
    /\ listener' = [listener EXCEPT ![t] = IF hFinal[t] THEN "resolved" ELSE "listening"]
    /\ UNCHANGED <<status, exitCode, vm, cbCalls, panicked, handleVars, handleFrame>>

\* The executor polls the listen future that the notification woke, or the
\* owner of a resolved future drops it.
HandleListenPoll(t) ==
    /\ listener[t] \in {"notified", "resolved"}
    /\ listener' = [listener EXCEPT ![t] = IF @ = "notified" THEN "resolved" ELSE "none"]
    /\ UNCHANGED <<status, exitCode, vm, cbCalls, panicked, handleVars, handleFrame>>

HandleNext ==
    \/ \E t \in Threads : HandleSubmit(t)
    \/ \E c \in ExitCodes : HandleSetExitCode(c)
    \/ HandleRunStart
    \/ HandleDrain
    \/ \E t \in Threads : \E o \in StepOutcomes : HandlePoll(t, o)
    \/ \E t \in Threads : \E o \in StepOutcomes : HandleWake(t, o)
    \/ HandleRunReturns
    \/ \E t \in Threads : HandleListen(t)
    \/ \E t \in Threads : HandleListenPoll(t)

HandleSpec == HandleInit /\ [][HandleNext]_vars

\* C27: for every Handle of a coroutine submitted before run, Handle::result
\* is None while the status is NotStarted and Some(Ok) or Some(Err) once run
\* has returned with status Completed; for a coroutine that raised it is
\* Some(Err) and the error callback was invoked.
C27_HandleResultByStatus ==
    \A t \in Threads : HasHandle(t) =>
        /\ status = "NotStarted" => HandleResult(t) = None
        /\ status = "Completed" => HandleResult(t) \in {"Ok", "Err"}
        /\ vm[t] = "error" => (HandleResult(t) = "Err" /\ cbCalls[t] >= 1)

\* The same for runs that end with no exit code set.
HandleResultByStatusWithoutExit ==
    \A t \in Threads : HasHandle(t) =>
        /\ status = "NotStarted" => HandleResult(t) = None
        /\ (status = "Completed" /\ exitCode = NoCode) => HandleResult(t) \in {"Ok", "Err"}
        /\ vm[t] = "error" => (HandleResult(t) = "Err" /\ cbCalls[t] = 1)

\* A run without an exit code has returned; one submitted coroutine raised
\* and its Handle holds Err.
HandleHoldsError ==
    /\ status = "Completed"
    /\ exitCode = NoCode
    /\ \E t \in Threads : HasHandle(t) /\ vm[t] = "error" /\ HandleResult(t) = "Err"
\* Handle::take is called for the Handle of coroutine t in this step: the
\* task of its handle thread is polled for the first time.
Takes(t) == hTask[t] = "runnable" /\ hTask'[t] # "runnable"

\* C36: for every Handle, the thread and arguments are taken out at most once
\* (a take finds them there and they are never put back), the event is
\* notified only by the assignment that sets the final flag for a coroutine
\* that is no longer Resumable, the final flag never goes back to false, and
\* listen resolves only when the flag is true, at its first poll when the flag
\* is true already.
C36_HandleFinalOnce ==
    [][\A t \in Threads : HasHandle(t) =>
          /\ Takes(t) => (hSlot[t] /\ ~hSlot'[t])
          /\ hSlot'[t] => hSlot[t]
          /\ (listener[t] = "listening" /\ listener'[t] = "notified")
                => (hFinal'[t] /\ hResult'[t] # None /\ vm'[t] \notin {"susp", "await", "ready"})
          /\ hFinal[t] => hFinal'[t]
          /\ Resolves(t) => hFinal[t]
          /\ (listener[t] = "none" /\ listener'[t] # "none" /\ hFinal[t]) => Resolves(t)]_vars

\* C36 witness: a listen future that waited on the Handle of a coroutine was
\* notified by the assignment of the final result: the coroutine is done, the
\* flag is set and the Handle holds the thread no more.
C36_Witness ==
    \E t \in Threads :
        /\ listener[t] = "notified"
        /\ hFinal[t]
        /\ ~hSlot[t]
        /\ hResult[t] # None
        /\ vm[t] \in {"dead", "error"}

(***************************************************************************)
(* ThreadWithArgs and the Lua registry: every queue entry holds two        *)
(* registry keys, one for the coroutine and one for its arguments.         *)
(***************************************************************************)

\* What the specification of the registry leaves alone.
slotFrame == <<loop, exitNotified, queueVars, waiter, orphans, futWait, futUsed, stack,
               mapVars, cbCalls, panicked, orderHist, exitHist, gotSome, pushed, calls,
               fnVars, attachVars, lastFn, waitVars, handleVars, wakeVars>>

SlotInit ==
    /\ SchedInit
    /\ FnIdle
    /\ OneRuntimeAttached
    /\ ObsIdle

\* ThreadWithArgs::new for the n-th value made: create_registry_value for the
\* coroutine and for the arguments gives two fresh keys.
ThreadWithArgsNew(n, t) == [th |-> t, key_thread |-> 2 * n - 1, key_args |-> 2 * n]

\* The keys of the entries of queue q.
KeysOf(q) == UNION {{q[i].key_thread, q[i].key_args} : i \in 1..Len(q)}

\* ThreadQueue::push_item on queue c, by the host or by a script function.
SlotPush(c, t) ==
    /\ status # "Completed"
    /\ slotMade < MaxSlots
    /\ LET stored == ThreadWithArgsNew(slotMade + 1, t)
       IN  /\ slotMade' = slotMade + 1
           /\ regKeys' = regKeys \cup {stored.key_thread, stored.key_args}
           /\ slotQ' = [slotQ EXCEPT ![c] = push_item(@, stored)]
    /\ UNCHANGED <<status, exitCode, vm, runq, regRemoved, slotFrame>>

\* cancel(t) called by a running script.
SlotCancel(t) ==
    /\ status = "Running"
    /\ IsResumable(t)
    /\ vm' = [vm EXCEPT ![t] = "closed"]
    /\ UNCHANGED <<status, exitCode, runq, slotVars, slotFrame>>

\* Runtime::set_exit_code, or the script function exit.
SlotSetExitCode(c) ==
    /\ status # "Completed"
    /\ exitCode = NoCode
    /\ exitCode' = c
    /\ UNCHANGED <<status, vm, runq, slotVars, slotFrame>>

\* Runtime::run is called.
SlotRunStart ==
    /\ status = "NotStarted"
    /\ status' = "Running"
    /\ UNCHANGED <<exitCode, vm, runq, slotVars, slotFrame>>

\* ThreadQueue::drain_items with ThreadWithArgs::into_inner on every entry of
\* both queues: the coroutine and the arguments are read from the registry
\* and both keys are removed; process_thread makes a task for the coroutines
\* that are Resumable and lets go of the others.
SlotDrain ==
    /\ status = "Running"
    /\ exitCode = NoCode
    /\ slotQ["spawn"] # <<>> \/ slotQ["defer"] # <<>>
    /\ LET all == slotQ["spawn"] \o slotQ["defer"]
           live == SelectSeq(all, LAMBDA e : IsResumable(e.th))
       IN  /\ regKeys' = regKeys \ KeysOf(all)
           /\ regRemoved' = [k \in DOMAIN regRemoved |->
                                regRemoved[k] + Cardinality({i \in 1..Len(all) :
                                    k \in {all[i].key_thread, all[i].key_args}})]
           /\ runq' = runq \o [i \in 1..Len(live) |-> live[i].th]
    /\ slotQ' = [c \in {"spawn", "defer"} |-> <<>>]
    /\ UNCHANGED <<status, exitCode, vm, slotMade, slotFrame>>

\* The first task of the executor is polled and its coroutine's step ends
\* with outcome o (a coroutine finished or cancelled meanwhile is not stepped).
SlotTaskStep(o) ==
    /\ status = "Running"
    /\ runq # <<>>
    /\ runq' = Tail(runq)
    /\ vm' = [vm EXCEPT ![Head(runq)] = IF IsResumable(Head(runq)) THEN VmAfter(o) ELSE @]
    /\ UNCHANGED <<status, exitCode, slotVars, slotFrame>>

\* run returns: the loop finds the exit code set, or after a drain the
\* executor holds no task.
SlotRunReturns ==
    /\ status = "Running"
    /\ \/ exitCode # NoCode
       \/ slotQ["spawn"] = <<>> /\ slotQ["defer"] = <<>> /\ runq = <<>>
    /\ status' = "Completed"
    /\ runq' = <<>>
    /\ UNCHANGED <<exitCode, vm, slotVars, slotFrame>>

SlotNext ==
    \/ \E c \in {"spawn", "defer"} : \E t \in Threads : SlotPush(c, t)
    \/ \E t \in Threads : SlotCancel(t)
    \/ \E c \in ExitCodes : SlotSetExitCode(c)
    \/ SlotRunStart
    \/ SlotDrain
    \/ \E o \in StepOutcomes : SlotTaskStep(o)
    \/ SlotRunReturns

SlotSpec == SlotInit /\ [][SlotNext]_vars

\* The registry keys made so far.
KeysMade == 1..(2 * slotMade)

\* Key k is held by exactly one entry of the two queues.
HeldByOneEntry(k) ==
    Cardinality({e \in {<<c, i>> : c \in {"spawn", "defer"}, i \in 1..MaxSlots} :
                    /\ e[2] <= Len(slotQ[e[1]])
                    /\ k \in {slotQ[e[1]][e[2]].key_thread, slotQ[e[1]][e[2]].key_args}}) = 1

\* No key was released twice; a key holds its value exactly while its entry
\* waits in a queue, and an entry that was drained is in no queue again.
SlotsReleasedAtMostOnce ==
    \A k \in KeysMade :
        /\ regRemoved[k] <= 1
        /\ k \in regKeys <=> regRemoved[k] = 0
        /\ k \in regKeys <=> HeldByOneEntry(k)
        /\ k \notin regKeys => k \notin KeysOf(slotQ["spawn"]) \cup KeysOf(slotQ["defer"])

\* C34: every ThreadWithArgs placed on the Spawn or Defer queue is released
\* exactly once: never twice, by the drain that takes it out of its queue,
\* whether or not its coroutine is still Resumable, never to return to a
\* queue; and once run has returned no entry made before is left unreleased.
C34_SlotsReleasedExactlyOnce ==
    /\ SlotsReleasedAtMostOnce
    /\ status = "Completed" => \A k \in KeysMade : regRemoved[k] = 1

\* The same for runs that end with no exit code set.
SlotsReleasedUnlessExit ==
    /\ SlotsReleasedAtMostOnce
    /\ (status = "Completed" /\ exitCode = NoCode) => \A k \in KeysMade : regRemoved[k] = 1

\* A run without an exit code has returned after a drain that released the
\* entry of a cancelled coroutine.
CancelledEntryReleased ==
    /\ status = "Completed"
    /\ exitCode = NoCode
    /\ slotMade >= 2
    /\ \E t \in Threads : vm[t] = "closed"
(***************************************************************************)
(* Wakeups of the thread queues: push_item called on other threads while   *)
(* the loop waits in wait_for_item.  Each step is one operation on the     *)
(* ConcurrentQueue or on the Event.                                        *)
(***************************************************************************)

\* The threads that push, beside the thread of the loop.
Pushers == {"p1", "p2"}

\* What the specification of the wakeups leaves alone.
wakeFrame == <<status, loop, exitCode, exitNotified, fut_queue, execVars, futUsed, vmVars,
               mapVars, cbCalls, panicked, orderHist, exitHist, gotSome, pushed, calls,
               fnVars, attachVars, lastFn, waitVars, handleVars, regKeys, regRemoved, slotQ>>

WakeInit ==
    /\ SchedInit
    /\ FnIdle
    /\ OneRuntimeAttached
    /\ ObsIdle

\* The queue of class c.
QueueOf(c) == IF c = "spawn" THEN queue_spawn ELSE queue_defer

\* push_item, `self.queue.push(stored)`: thread p appends coroutine t to queue c.
PushItemPush(p, c, t) ==
    /\ pushing[p] = None
    /\ slotMade < MaxSlots
    /\ slotMade' = slotMade + 1
    /\ queue_spawn' = IF c = "spawn" THEN push_item(queue_spawn, t) ELSE queue_spawn
    /\ queue_defer' = IF c = "defer" THEN push_item(queue_defer, t) ELSE queue_defer
    /\ pushing' = [pushing EXCEPT ![p] = c]
    /\ UNCHANGED <<itemWait, wakeFrame>>

\* push_item, `self.event.notify(usize::MAX)`: the listeners registered at
\* this moment are notified; with none registered nothing happens.
PushItemNotify(p) ==
    /\ pushing[p] # None
    /\ itemWait' = [itemWait EXCEPT ![pushing[p]] = IF @ = "listening" THEN "notified" ELSE @]
    /\ pushing' = [pushing EXCEPT ![p] = None]
    /\ UNCHANGED <<slotMade, queue_spawn, queue_defer, wakeFrame>>

\* wait_for_item, `if self.queue.is_empty()`: the future is done if the queue
\* holds an item, otherwise it goes on to listen.
WaitForItemCheck(c) ==
    /\ itemWait[c] = "new"
    /\ itemWait' = [itemWait EXCEPT ![c] = IF QueueOf(c) = <<>> THEN "checked" ELSE "ready"]
    /\ UNCHANGED <<slotMade, queue_spawn, queue_defer, pushing, wakeFrame>>

\* wait_for_item, `self.event.listen()`: a listener is registered and awaited.
WaitForItemListen(c) ==
    /\ itemWait[c] = "checked"
    /\ itemWait' = [itemWait EXCEPT ![c] = "listening"]
    /\ UNCHANGED <<slotMade, queue_spawn, queue_defer, pushing, wakeFrame>>

\* The notified listener is polled: wait_for_item is done.
WaitForItemWake(c) ==
    /\ itemWait[c] = "notified"
    /\ itemWait' = [itemWait EXCEPT ![c] = "ready"]
    /\ UNCHANGED <<slotMade, queue_spawn, queue_defer, pushing, wakeFrame>>

\* One wait_for_item of the prioritised wait is done: the loop drains both
\* queues and, in its next pass, makes new wait_for_item futures.
WakeDrain ==
    /\ \E c \in {"spawn", "defer"} : itemWait[c] = "ready"
    /\ \A c \in {"spawn", "defer"} : itemWait[c] # "checked"
    /\ queue_spawn' = <<>>
    /\ queue_defer' = <<>>
    /\ itemWait' = [c \in {"spawn", "defer"} |-> "new"]
    /\ UNCHANGED <<slotMade, pushing, wakeFrame>>

WakeNext ==
    \/ \E p \in Pushers : \E c \in {"spawn", "defer"} : \E t \in Threads : PushItemPush(p, c, t)
    \/ \E p \in Pushers : PushItemNotify(p)
    \/ \E c \in {"spawn", "defer"} : WaitForItemCheck(c)
    \/ \E c \in {"spawn", "defer"} : WaitForItemListen(c)
    \/ \E c \in {"spawn", "defer"} : WaitForItemWake(c)
    \/ WakeDrain

WakeSpec == WakeInit /\ [][WakeNext]_vars

\* The wait_for_item future of queue c listens, and no push that is still
\* under way will notify it.
Blocked(c) == itemWait[c] = "listening" /\ \A p \in Pushers : pushing[p] # c

WokenWhenPushedAfterListen ==
    [][\A c \in {"spawn", "defer"} : \A p \in Pushers :
          (itemWait[c] = "listening" /\ pushing[p] = c /\ pushing'[p] = None)
              => itemWait'[c] = "notified"]_vars
====
